---- MODULE Spec2Model ----
(***************************************************************************)
(* WarframeMarketer: the order store (order_history, item_prices) with its *)
(* ingestion and sweep operations and its per-listing transactions, the    *)
(* RateLimiter, make_request and fetch_orders_batch of the API client, and *)
(* the functions analyze_market_data and detect_outliers.                  *)
(*                                                                         *)
(* Time stamps are integers counted in ticks, TicksPerDay ticks to a day,  *)
(* so that both date comparisons of the code keep their own meaning:       *)
(*   (current_time - last_seen).days > 30     whole days, rounded down     *)
(*   last_seen < now - timedelta(days=30)     exact comparison             *)
(***************************************************************************)
EXTENDS Integers, Sequences, FiniteSets, TLC

\* ---------------------------------------------------------------- bounds
TicksPerDay == 2
MaxChanges == 2
MaxAppends == 2

\* ------------------------------------------------------ program constants
StaleDays == 30

StaleTicks == StaleDays * TicksPerDay

\* ------------------------------------------------------------ input sets
OrderIds == {"o1", "o2"}
Users == {"u1"}
WfIds == {1}
Sides == {"sell"}
Prices == {10, 20}
Quantities == {1}

\* The quantities handed to insert_price.
SampleQuantities == {1, 2}

\* parse_timestamp returns None for a missing or malformed time stamp
None == -1
SeenTimes == {0, 1}

\* The instants at which the clock is read: the early ones, at which the
\* listings are stamped, and the ones about 30 days later.
ClockTimes == SeenTimes \cup {StaleTicks + d : d \in 0..(TicksPerDay + 1)}

\* The arguments of purge_old_data: one month, and the default of 12.
Months == {1, 12}

\* One listing of the payload of fetch_orders, last_seen already parsed.
Orders ==
    [id : OrderIds, user : Users, platinum : Prices, quantity : Quantities,
     order_type : Sides, last_seen : SeenTimes \cup {None}]

\* The listings that process_order can be handed, of either quantity.
Listings ==
    [id : OrderIds, user : Users, platinum : Prices, quantity : SampleQuantities,
     order_type : Sides, last_seen : SeenTimes]

\* The payloads of fetch_orders: up to two listings, of distinct orders.
Snapshots ==
    {<<>>} \cup {<<a>> : a \in Orders}
           \cup {s \in {<<a, b>> : a \in Orders, b \in Orders} : s[1].id # s[2].id}

\* ------------------------------------------------------- the rate limiter
\* WarframeMarketClient: self.rate_limiter = RateLimiter(2.0)
calls_per_second == 2
TicksPerSecond == 4
MaxTime == 6
Tasks == {"t1", "t2", "t3"}

\* self.min_interval = 1.0 / calls_per_second
min_interval == TicksPerSecond \div calls_per_second

VARIABLES
    order_history,   \* table order_history: order_id -> row
    item_prices,     \* table item_prices: <<item_id, recorded_at, price, side>> -> quantity
    now,             \* datetime.now(timezone.utc), in ticks
    lastOp,          \* the operation that ran last
    priceVaried      \* order ids ingested with a price other than their first one

dbvars == <<order_history, item_prices, now, lastOp, priceVaried>>

VARIABLES
    last_call,       \* RateLimiter.last_call, in clock ticks
    semaphore,       \* value of RateLimiter.semaphore (asyncio.Semaphore(1))
    loop_time,       \* asyncio.get_event_loop().time(), in clock ticks
    pc,              \* where each task stands in acquire()
    wake,            \* the time at which a task's asyncio.sleep is over
    prev_call,       \* last_call as it was before the latest grant
    grants           \* number of grants so far, counted up to 2

rlvars == <<last_call, semaphore, loop_time, pc, wake, prev_call, grants>>

VARIABLES
    appended,        \* per sample key, the sum of the quantities appended so far
    appends,         \* number of insert_price calls so far
    lastSnapshot,    \* wf_id and listings of the latest snapshot ingested under faults
    lastFailing      \* the order ids whose transaction failed in that snapshot

txvars == <<appended, appends, lastSnapshot, lastFailing>>

VARIABLES
    mr_pc,           \* where the running make_request call stands
    mr_stack,        \* the frames below the running one: where each made its call
    mr_gets,         \* GETs sent since the outermost call began
    mr_last,         \* outcome of the latest GET
    mr_first_ok,     \* number of the first GET answered with a payload, 0 if none
    mr_result,       \* the payload returned by the outermost call (its GET's number)
    mr_error,        \* the error raised by the outermost call
    batch_pc,        \* where fetch_orders_batch stands
    batch_i,         \* index of the item being fetched
    batch_results,   \* results: the items fetched so far
    batch_progress   \* the values handed to progress_callback, in order

mrvars == <<mr_pc, mr_stack, mr_gets, mr_last, mr_first_ok, mr_result, mr_error,
            batch_pc, batch_i, batch_results, batch_progress>>

VARIABLES
    fn_in,           \* the arguments of a call of a pure function
    fn_out,          \* its return value
    fn_done          \* whether the call has returned

fnvars == <<fn_in, fn_out, fn_done>>

VARIABLES
    in_flight        \* the tasks whose GET has been sent and not answered yet

VARIABLES
    cl_pc,           \* where each client's task stands in its limiter's acquire()
    cl_last_call,    \* last_call of each client's own RateLimiter
    cl_wake,         \* the time at which each client's sleep is over
    cl_latest_grant, \* time of the latest grant of any client
    cl_prev_grant,   \* time of the grant before it
    cl_grants        \* number of grants of all clients, counted up to 2

clvars == <<cl_pc, cl_last_call, cl_wake, cl_latest_grant, cl_prev_grant, cl_grants>>

VARIABLES
    sx_pc,           \* where each session stands in process_order
    sx_order,        \* the listing each session is processing
    sx_read,         \* existing_order, as the session's SELECT returned it
    sx_raised,       \* the sessions whose latest process_order raised
    changes_due,     \* per order_id, the committed updates at a price other than initial_price
    inserted         \* per order_id, the INSERTs into order_history that committed

sxvars == <<sx_pc, sx_order, sx_read, sx_raised, changes_due, inserted>>

VARIABLES
    price_count,     \* price_count of async_update_market_data
    price_errors,    \* price_errors
    order_count,     \* order_count
    order_errors,    \* order_errors
    prices_written,  \* the listings whose sample insert_price committed to item_prices
    orders_written   \* the listings whose record insert_order committed to order_history

cnvars == <<price_count, price_errors, order_count, order_errors, prices_written,
            orders_written>>

VARIABLES
    run_kind,        \* the run in progress: main or one of the UpdateTab operations
    run_pc,          \* where the run stands
    run_step,        \* index of the step of the try block that comes next
    run_result,      \* how the try block of the latest run ended
    session,         \* self.session of the run's client: None or the session
    open_sessions,   \* the ClientSessions created and not closed
    next_session     \* the sessions created so far, plus 1

snvars == <<run_kind, run_pc, run_step, run_result, session, open_sessions, next_session>>

VARIABLES
    oc_orders,       \* OrderCollection.orders: per order_type the price map, in insertion order
    oc_added,        \* the quantities added per (order_type, price) since the last clear
    oc_result,       \* the list the latest get_all_orders returned
    oc_before,       \* the collection as the latest get_all_orders found it
    oc_pc,           \* "reported" while oc_result is the report of the present collection
    oc_calls         \* the calls made so far

ocvars == <<oc_orders, oc_added, oc_result, oc_before, oc_pc, oc_calls>>

vars == <<dbvars, txvars, rlvars, mrvars, fnvars, in_flight, clvars, sxvars, cnvars, snvars, ocvars>>

\* What the steps of one component leave alone.
others_db == <<rlvars, mrvars, fnvars, in_flight, clvars, sxvars, cnvars, snvars, ocvars>>
others_rl == <<dbvars, txvars, mrvars, fnvars, clvars, sxvars, cnvars, snvars, ocvars>>
others_mr == <<dbvars, txvars, rlvars, fnvars, in_flight, clvars, sxvars, cnvars, snvars, ocvars>>
others_fn == <<dbvars, txvars, rlvars, mrvars, in_flight, clvars, sxvars, cnvars, snvars, ocvars>>
others_cl == <<dbvars, txvars, mrvars, fnvars, in_flight, sxvars, cnvars, snvars, ocvars>>
others_sx == <<txvars, rlvars, mrvars, fnvars, in_flight, clvars, cnvars, snvars, ocvars>>
others_cn == <<txvars, rlvars, mrvars, fnvars, in_flight, clvars, sxvars, snvars, ocvars>>
others_sn == <<dbvars, txvars, rlvars, mrvars, fnvars, in_flight, clvars, sxvars, cnvars, ocvars>>
others_oc == <<dbvars, txvars, rlvars, mrvars, fnvars, in_flight, clvars, sxvars, cnvars, snvars>>

\* ------------------------------------------------------------- the store
NULL == <<>>

\* Variant: the cutoff instant itself counts as stale (<= for <).
IsStale_Inclusive(row, t) == row.last_seen <= t - StaleTicks /\ row.status = "active"

\* UPDATE order_history SET status = 'dead' WHERE last_seen < month_ago AND status = 'active'
IsStale(row, t) == row.last_seen < t - StaleTicks /\ row.status = "active"

\* Variant: a sweep that fetches one stale row and updates only that one.
SweepStore_OneRow(oh, t) ==
    LET stale == {o \in DOMAIN oh : IsStale(oh[o], t)} IN
    IF stale = {} THEN oh
    ELSE [oh EXCEPT ![CHOOSE o \in stale : TRUE].status = "dead"]

\* Variant: the sweep closes stale records as fulfilled.
SweepStore_Fulfilled(oh, t) ==
    [o \in DOMAIN oh |-> IF IsStale(oh[o], t)
                         THEN [oh[o] EXCEPT !.status = "fulfilled", !.fulfilled_at = <<t>>]
                         ELSE oh[o]]

SweepStore(oh, t) ==
    [o \in DOMAIN oh |-> IF IsStale(oh[o], t) THEN [oh[o] EXCEPT !.status = "dead"] ELSE oh[o]]

\* purge_old_data(months): cutoff_date = now - timedelta(days=months * 30);
\* DELETE FROM order_history WHERE fulfilled_at < cutoff (a NULL fulfilled_at
\* never compares below it), DELETE FROM item_prices WHERE recorded_at < cutoff.
PurgeStore(db, months, t) ==
    LET cutoff_date == t - months * 30 * TicksPerDay
        kept_orders == {o \in DOMAIN db.oh :
                           ~(db.oh[o].fulfilled_at # NULL /\ db.oh[o].fulfilled_at[1] < cutoff_date)}
        kept_prices == {k \in DOMAIN db.ip : ~(k[2] < cutoff_date)}
    IN  [oh |-> [o \in kept_orders |-> db.oh[o]],
         ip |-> [k \in kept_prices |-> db.ip[k]]]

\* Variant: every update counts as a price change.
CountChange_Always(price_changes, current_price, row) == price_changes + 1

\* if current_price != initial_price: price_changes += 1
CountChange(price_changes, current_price, row) ==
    IF current_price # row.initial_price THEN price_changes + 1 ELSE price_changes

\* Variant: an update also sets the status back to active.
UpdatedRow_Revive(row, order) ==
    [row EXCEPT !.final_price = order.platinum,
                !.last_seen = order.last_seen,
                !.price_changes = CountChange(row.price_changes, order.platinum, row),
                !.visibility_duration = <<order.last_seen - row.first_seen>>,
                !.status = "active"]

\* Variant: an update marks the record as a relist.
UpdatedRow_Relist(row, order) ==
    [row EXCEPT !.final_price = order.platinum,
                !.last_seen = order.last_seen,
                !.price_changes = CountChange(row.price_changes, order.platinum, row),
                !.visibility_duration = <<order.last_seen - row.first_seen>>,
                !.listing_type = "relist"]

\* The UPDATE of process_order on the row of an order_id already stored.
UpdatedRow(row, order) ==
    [row EXCEPT !.final_price = order.platinum,
                !.last_seen = order.last_seen,
                !.price_changes = CountChange(row.price_changes, order.platinum, row),
                !.visibility_duration = <<order.last_seen - row.first_seen>>]

\* CASE WHEN %s IN (SELECT order_id FROM order_history WHERE user_id = %s AND item_id = %s)
ListingType(oh, wf_id, order) ==
    IF order.id \in {o \in DOMAIN oh : oh[o].user_id = order.user /\ oh[o].item_id = wf_id}
    THEN "relist" ELSE "new"

\* The INSERT of process_order for an order_id not stored yet; status,
\* price_changes and visibility_duration take the defaults of the schema.
InsertedRow(oh, wf_id, order) ==
    [item_id |-> wf_id, user_id |-> order.user,
     initial_price |-> order.platinum, final_price |-> order.platinum,
     quantity |-> order.quantity, side |-> order.order_type,
     first_seen |-> order.last_seen, last_seen |-> order.last_seen,
     status |-> "active", visibility_duration |-> NULL, price_changes |-> 0,
     listing_type |-> ListingType(oh, wf_id, order), fulfilled_at |-> NULL]

\* Variant: on a conflict the quantity is replaced.
UpsertPrice_Replace(ip, key, quantity) ==
    IF key \in DOMAIN ip THEN [ip EXCEPT ![key] = quantity] ELSE ip @@ (key :> quantity)

\* INSERT INTO item_prices ... ON CONFLICT (...) DO UPDATE SET quantity = quantity + EXCLUDED.quantity
UpsertPrice(ip, key, quantity) ==
    IF key \in DOMAIN ip THEN [ip EXCEPT ![key] = @ + quantity] ELSE ip @@ (key :> quantity)

\* process_order as a function of the store: one transaction, committed as
\* a whole; a NULL last_seen violates NOT NULL and the transaction rolls back.
ProcessOrderStore(db, wf_id, order) ==
    IF order.last_seen = None THEN db
    ELSE IF order.id \in DOMAIN db.oh
    THEN [db EXCEPT !.oh = [db.oh EXCEPT ![order.id] = UpdatedRow(@, order)]]
    ELSE [oh |-> db.oh @@ (order.id :> InsertedRow(db.oh, wf_id, order)),
          ip |-> UpsertPrice(db.ip, <<wf_id, order.last_seen, order.platinum, order.order_type>>,
                             order.quantity)]

Store == [oh |-> order_history, ip |-> item_prices]

\* if not last_seen: continue / if (current_time - last_seen).days > 30: continue
Skipped(order, t) ==
    \/ order.last_seen = None
    \/ (t - order.last_seen) \div TicksPerDay > StaleDays

\* The loop of process_single_warframe over data['payload']['orders'].
RECURSIVE IngestOrders(_, _, _, _)
IngestOrders(db, wf_id, orders, t) ==
    IF orders = <<>> THEN db
    ELSE IngestOrders(IF Skipped(Head(orders), t) THEN db
                      ELSE ProcessOrderStore(db, wf_id, Head(orders)),
                      wf_id, Tail(orders), t)

ActiveOrderIds(orders, t) ==
    {orders[i].id : i \in {j \in DOMAIN orders : ~Skipped(orders[j], t)}}

\* process_single_warframe as a function of the store, from the payload of
\* fetch_orders on: the loop, then update_order_status if any listing passed.
ProcessSingleWarframeStore(db, wf_id, orders, t) ==
    LET ingested == IngestOrders(db, wf_id, orders, t) IN
    IF ActiveOrderIds(orders, t) # {}
    THEN [ingested EXCEPT !.oh = SweepStore(ingested.oh, t)]
    ELSE ingested

\* ------------------------------------------------- transactions and faults
\* Where the transaction of one listing can fail: at a statement on
\* order_history, or at the INSERT INTO item_prices that follows the INSERT
\* of a new order.
Faults == {"none", "order_history", "item_prices"}

Fails(db, order, fault) ==
    \/ fault = "order_history"
    \/ fault = "item_prices" /\ order.id \notin DOMAIN db.oh

\* What the transaction has written when its statement fails.
Tentative(db, wf_id, order, fault) ==
    IF fault = "item_prices"
    THEN [db EXCEPT !.oh = ProcessOrderStore(db, wf_id, order).oh]
    ELSE db

\* Variant: the rollback leaves the write to order_history in place.
Rollback_KeepsOrder(before, tentative) == [before EXCEPT !.oh = tentative.oh]

\* conn.rollback()
Rollback(before, tentative) == before

\* process_order as one transaction: conn.commit(), or conn.rollback() in
\* the except clause.
ProcessOrderTxn(db, wf_id, order, fault) ==
    IF Fails(db, order, fault)
    THEN Rollback(db, Tentative(db, wf_id, order, fault))
    ELSE ProcessOrderStore(db, wf_id, order)

\* Variant: the error of a listing leaves the loop.
LoopContinues_Abort(failed) == ~failed

\* process_order logs the error it caught and returns (except Exception),
\* so the loop of process_single_warframe goes on to the next listing.
LoopContinues(failed) == TRUE

\* The loop of process_single_warframe when transactions can fail: the
\* store it leaves and the order ids whose transaction was rolled back.
RECURSIVE IngestOrdersTxn(_, _, _, _, _, _)
IngestOrdersTxn(db, failing, wf_id, orders, faults, t) ==
    IF orders = <<>> THEN [db |-> db, failing |-> failing]
    ELSE LET order == Head(orders)
             failed == ~Skipped(order, t) /\ Fails(db, order, Head(faults))
             after == IF Skipped(order, t) THEN db
                      ELSE ProcessOrderTxn(db, wf_id, order, Head(faults))
             failing_after == IF failed THEN failing \cup {order.id} ELSE failing
         IN IF LoopContinues(failed)
            THEN IngestOrdersTxn(after, failing_after, wf_id, Tail(orders), Tail(faults), t)
            ELSE [db |-> after, failing |-> failing_after]

\* The listings whose transaction was not rolled back.
Committed(orders, failing) == SelectSeq(orders, LAMBDA order : order.id \notin failing)

\* process_single_warframe when transactions can fail; active_order_ids
\* receives the id of a listing whether its transaction committed or not.
ProcessSingleWarframeTxn(db, wf_id, orders, faults, t) ==
    LET ingested == IngestOrdersTxn(db, {}, wf_id, orders, faults, t) IN
    IF ActiveOrderIds(orders, t) # {}
    THEN [ingested EXCEPT !.db.oh = SweepStore(ingested.db.oh, t)]
    ELSE ingested

\* ------------------------------------------------------------ operations
InitDB ==
    /\ order_history = <<>>
    /\ item_prices = <<>>
    /\ now = 0
    /\ lastOp = "init"
    /\ priceVaried = {}
    /\ appended = <<>>
    /\ appends = 0
    /\ lastSnapshot = [wf_id |-> 0, orders |-> <<>>]
    /\ lastFailing = {}

\* The sum of the quantities appended under one sample key.
AddSample(app, key, quantity) ==
    IF key \in DOMAIN app
    THEN [app EXCEPT ![key] = @ + quantity]
    ELSE [k \in DOMAIN app \cup {key} |-> IF k = key THEN quantity ELSE app[k]]

\* process_order appends the listing's sample when the order has no record yet.
Appended(app, oh, wf_id, order) ==
    IF order.last_seen # None /\ order.id \notin DOMAIN oh
    THEN AddSample(app, <<wf_id, order.last_seen, order.platinum, order.order_type>>,
                   order.quantity)
    ELSE app

\* The same along the listings of one snapshot, of distinct orders.
RECURSIVE AppendedOrders(_, _, _, _, _)
AppendedOrders(app, oh, wf_id, orders, t) ==
    IF orders = <<>> THEN app
    ELSE AppendedOrders(IF Skipped(Head(orders), t) THEN app
                        ELSE Appended(app, oh, wf_id, Head(orders)),
                        oh, wf_id, Tail(orders), t)

WithinBounds(db) == \A o \in DOMAIN db.oh : db.oh[o].price_changes <= MaxChanges

Varied(oh, order) ==
    IF order.last_seen # None /\ order.id \in DOMAIN oh /\ order.platinum # oh[order.id].initial_price
    THEN {order.id} ELSE {}

\* DatabaseOperations.process_order(wf_id, order, client)
ProcessOrder(wf_id, order) ==
    /\ order.last_seen = None \/ order.last_seen <= now
    /\ \E db \in {ProcessOrderStore(Store, wf_id, order)} :
        /\ WithinBounds(db)
        /\ order_history' = db.oh
        /\ item_prices' = db.ip
        /\ priceVaried' = priceVaried \cup Varied(order_history, order)
        /\ appended' = Appended(appended, order_history, wf_id, order)
        /\ lastOp' = "process_order"
        /\ UNCHANGED <<now, appends, lastSnapshot, lastFailing, others_db>>

\* DatabaseOperations.update_order_status()
UpdateOrderStatus ==
    /\ order_history' = SweepStore(order_history, now)
    /\ lastOp' = "update_order_status"
    /\ UNCHANGED <<item_prices, now, priceVaried, txvars, others_db>>

\* Time passes between two operations.
\* DatabaseOperations.purge_old_data(months), one transaction.
PurgeOldData(months) ==
    /\ \E db \in {PurgeStore(Store, months, now)} :
        /\ order_history' = db.oh
        /\ item_prices' = db.ip
    /\ lastOp' = "purge_old_data"
    /\ UNCHANGED <<now, priceVaried, txvars, others_db>>

Tick ==
    /\ \E t \in ClockTimes : t > now /\ now' = t
    /\ lastOp' = "tick"
    /\ UNCHANGED <<order_history, item_prices, priceVaried, txvars, others_db>>

\* WarframeMarketApp.process_single_warframe(wf_id, name), from the answer of
\* fetch_orders on: no await follows it, so the rest runs in one piece.
ProcessSingleWarframe(wf_id, orders) ==
    /\ \A i \in DOMAIN orders : orders[i].last_seen = None \/ orders[i].last_seen <= now
    /\ \E db \in {ProcessSingleWarframeStore(Store, wf_id, orders, now)} :
        /\ WithinBounds(db)
        /\ order_history' = db.oh
        /\ item_prices' = db.ip
        /\ priceVaried' = priceVaried \cup
              UNION {Varied(order_history, orders[i]) :
                       i \in {j \in DOMAIN orders : ~Skipped(orders[j], now)}}
        /\ appended' = AppendedOrders(appended, order_history, wf_id, orders, now)
        /\ lastOp' = "process_single_warframe"
        /\ UNCHANGED <<now, appends, lastSnapshot, lastFailing, others_db>>

\* insert_price: INSERT ... ON CONFLICT (item_id, recorded_at, price, side) DO NOTHING
InsertPriceStore(ip, key, quantity) ==
    IF key \in DOMAIN ip THEN ip
    ELSE [k \in DOMAIN ip \cup {key} |-> IF k = key THEN quantity ELSE ip[k]]

\* DatabaseOperations.insert_price(item_id, price, quantity, side, recorded_at)
InsertPrice(item_id, price, quantity, side, recorded_at) ==
    /\ appends < MaxAppends
    /\ recorded_at <= now
    /\ item_prices' = InsertPriceStore(item_prices, <<item_id, recorded_at, price, side>>, quantity)
    /\ appended' = AddSample(appended, <<item_id, recorded_at, price, side>>, quantity)
    /\ appends' = appends + 1
    /\ lastOp' = "insert_price"
    /\ UNCHANGED <<order_history, now, priceVaried, lastSnapshot, lastFailing, others_db>>

\* process_single_warframe on a payload of listings with time stamps, the
\* transaction of each listing failing or not.
ProcessSingleWarframeFaults(wf_id, orders, faults) ==
    /\ \A i \in DOMAIN orders : orders[i].last_seen # None /\ orders[i].last_seen <= now
    /\ \E r \in {ProcessSingleWarframeTxn(Store, wf_id, orders, faults, now)} :
        /\ WithinBounds(r.db)
        /\ order_history' = r.db.oh
        /\ item_prices' = r.db.ip
        /\ priceVaried' = priceVaried \cup
              UNION {Varied(order_history, orders[i]) :
                       i \in {j \in DOMAIN orders :
                                ~Skipped(orders[j], now) /\ orders[j].id \notin r.failing}}
        /\ appended' = AppendedOrders(appended, order_history, wf_id,
                                      Committed(orders, r.failing), now)
        /\ lastSnapshot' = [wf_id |-> wf_id, orders |-> orders]
        /\ lastFailing' = r.failing
        /\ lastOp' = "process_single_warframe"
        /\ UNCHANGED <<now, appends, others_db>>

\* The store under direct calls of its operations.
Next ==
    \/ \E wf_id \in WfIds, order \in Orders : ProcessOrder(wf_id, order)
    \/ UpdateOrderStatus
    \/ Tick

\* Ingestion, sweep and purge on one store.
NextPipeline ==
    \/ \E wf_id \in WfIds, order \in Orders : ProcessOrder(wf_id, order)
    \/ UpdateOrderStatus
    \/ \E months \in Months : PurgeOldData(months)
    \/ Tick

\* The price samples under both of their writers.
NextPrices ==
    \/ \E item_id \in WfIds, price \in Prices, quantity \in SampleQuantities,
          side \in Sides, recorded_at \in SeenTimes :
            InsertPrice(item_id, price, quantity, side, recorded_at)
    \/ \E wf_id \in WfIds, order \in Orders : ProcessOrder(wf_id, order)

\* The store under the orchestrator's ingestion of whole snapshots.
NextSnapshot ==
    \/ \E wf_id \in WfIds, orders \in Snapshots : ProcessSingleWarframe(wf_id, orders)
    \/ Tick

\* The store under the ingestion of snapshots whose transactions can fail.
NextFaults ==
    \E wf_id \in WfIds, orders \in Snapshots :
        \E faults \in [DOMAIN orders -> Faults] :
            ProcessSingleWarframeFaults(wf_id, orders, faults)

\* ------------------------------------------------------- the rate limiter
InitRL ==
    /\ last_call = 0
    /\ semaphore = 1
    /\ loop_time = 0
    /\ pc = [t \in Tasks |-> "idle"]
    /\ wake = [t \in Tasks |-> 0]
    /\ prev_call = 0
    /\ grants = 0
    /\ in_flight = {}

\* A task calls acquire() and reaches "async with self.semaphore". Inside
\* make_request the task is suspended in "async with self.session.get" until
\* the response is there, so it calls acquire() again only after that.
Call(t) ==
    /\ pc[t] = "idle"
    /\ t \notin in_flight
    /\ pc' = [pc EXCEPT ![t] = "waiting"]
    /\ UNCHANGED <<last_call, semaphore, loop_time, wake, prev_call, grants, in_flight, others_rl>>

\* Variant: no admission gate, every caller goes straight in.
SemaphoreFree_NoGate == TRUE

\* asyncio.Semaphore.acquire returns once the value is positive.
SemaphoreFree == semaphore > 0

\* if time_since_last < self.min_interval: the argument of asyncio.sleep, else 0
SleepTime(t_now, t_last) ==
    IF t_now - t_last < min_interval THEN min_interval - (t_now - t_last) ELSE 0

\* The task takes the semaphore, reads the clock and either goes to sleep
\* or goes on to write last_call.
Enter(t) ==
    /\ pc[t] = "waiting"
    /\ SemaphoreFree
    /\ semaphore' = semaphore - 1
    /\ wake' = [wake EXCEPT ![t] = loop_time + SleepTime(loop_time, last_call)]
    /\ pc' = [pc EXCEPT ![t] = IF SleepTime(loop_time, last_call) > 0 THEN "sleeping" ELSE "awake"]
    /\ UNCHANGED <<last_call, loop_time, prev_call, grants, in_flight, others_rl>>

\* self.last_call = time(), once the sleep (if any) is over; leaving the
\* with block releases the semaphore, and acquire() returns.
Granted(t) ==
    /\ pc[t] \in {"sleeping", "awake"}
    /\ loop_time >= wake[t]
    /\ last_call' = loop_time
    /\ prev_call' = last_call
    /\ grants' = IF grants < 2 THEN grants + 1 ELSE grants
    /\ semaphore' = semaphore + 1
    /\ pc' = [pc EXCEPT ![t] = "idle"]
    /\ UNCHANGED <<loop_time, wake, others_rl>>

\* acquire() returns to a caller that is not followed any further.
Grant(t) ==
    /\ Granted(t)
    /\ UNCHANGED in_flight

\* acquire() returns to make_request, which goes on without another await
\* to "async with self.session.get(url)": the GET is sent.
SendGet(t) ==
    /\ Granted(t)
    /\ in_flight' = in_flight \cup {t}

\* The response of a task's GET arrives; whatever its status, the task is
\* free to call acquire() again (a retry, or the next fetch).
Respond(t) ==
    /\ t \in in_flight
    /\ in_flight' = in_flight \ {t}
    /\ UNCHANGED <<rlvars, others_rl>>

\* The monotonic clock of the event loop advances.
TickLoop ==
    /\ loop_time < MaxTime
    /\ loop_time' = loop_time + 1
    /\ UNCHANGED <<last_call, semaphore, pc, wake, prev_call, grants, in_flight, others_rl>>

NextRL ==
    \/ \E t \in Tasks : Call(t)
    \/ \E t \in Tasks : Enter(t)
    \/ \E t \in Tasks : Grant(t)
    \/ TickLoop

\* Several tasks of one client, each in make_request: acquire(), then the GET.
NextGets ==
    \/ \E t \in Tasks : Call(t)
    \/ \E t \in Tasks : Enter(t)
    \/ \E t \in Tasks : SendGet(t)
    \/ \E t \in Tasks : Respond(t)
    \/ TickLoop

\* ------------------------------------------------------------ make_request
\* WarframeMarketClient.__init__: self.max_retries = 3
max_retries == 3
MaxGets == 16

\* What one GET can come to: a payload, status 429, another error status
\* (raise_for_status), a transport error, or an error outside aiohttp.
Outcomes == {"ok", "429", "http_error", "transport", "timeout"}

\* The items handed to fetch_orders_batch.
BatchItems == <<"a", "b", "c">>

\* Variant: whatever failed, the error raised is the one of status 429.
RaisedError_MaxRetries(outcome) == "ClientResponseError_429"

\* The exception a failed attempt raises.
RaisedError(outcome) ==
    CASE outcome = "429" -> "ClientResponseError_429"
      [] outcome = "http_error" -> "ClientResponseError"
      [] outcome = "transport" -> "ClientConnectionError"
      [] outcome = "timeout" -> "TimeoutError"

\* except aiohttp.ClientError
IsClientError(err) ==
    err \in {"ClientResponseError_429", "ClientResponseError", "ClientConnectionError"}

\* Variant: the handler's own retry call is guarded by the handler too.
Catches_Always(frame, err) == IsClientError(err)

\* An error leaving a recursive call meets the caller's except clause when
\* the call was made inside the try block (the retry after a 429), and
\* passes through when it was made inside the handler.
Catches(frame, err) == frame = "try" /\ IsClientError(err)

\* An error leaves the frame above stack: the frames it was called from
\* are left one by one until a handler retries or none remains.
RECURSIVE Unwind(_, _)
Unwind(stack, err) ==
    IF stack = <<>> THEN [pc |-> "raised", stack |-> <<>>]
    ELSE LET caller == SubSeq(stack, 1, Len(stack) - 1) IN
         IF Catches(stack[Len(stack)], err) /\ Len(caller) < max_retries
         THEN [pc |-> "sleep_except", stack |-> caller]
         ELSE Unwind(caller, err)

\* An error raised inside the try block of the running frame, whose retries
\* is the number of frames below it.
Raise(stack, err) ==
    IF IsClientError(err) /\ Len(stack) < max_retries
    THEN [pc |-> "sleep_except", stack |-> stack]
    ELSE Unwind(stack, err)

InitMR ==
    /\ mr_pc = "idle"
    /\ mr_stack = <<>>
    /\ mr_gets = 0
    /\ mr_last = "none"
    /\ mr_first_ok = 0
    /\ mr_result = 0
    /\ mr_error = "none"
    /\ batch_pc = "idle"
    /\ batch_i = 0
    /\ batch_results = {}
    /\ batch_progress = <<>>

\* make_request(url, 0) begins: await self.rate_limiter.acquire()
MakeRequest ==
    /\ mr_pc' = "acquire"
    /\ mr_stack' = <<>>
    /\ mr_gets' = 0
    /\ mr_last' = "none"
    /\ mr_first_ok' = 0
    /\ mr_result' = 0
    /\ mr_error' = "none"

\* acquire() lets the call through.
Acquire ==
    /\ mr_pc = "acquire"
    /\ mr_pc' = "get"
    /\ UNCHANGED <<mr_stack, mr_gets, mr_last, mr_first_ok, mr_result, mr_error,
                   batch_pc, batch_i, batch_results, batch_progress, others_mr>>

\* self.session.get(url) comes to its outcome, and the frame runs to its
\* next await, or the call to its end.
Get(outcome) ==
    /\ mr_pc = "get"
    /\ mr_gets' = IF mr_gets < MaxGets THEN mr_gets + 1 ELSE mr_gets
    /\ mr_last' = outcome
    /\ mr_first_ok' = IF outcome = "ok" /\ mr_first_ok = 0 THEN mr_gets' ELSE mr_first_ok
    /\ IF outcome = "ok"
       THEN /\ mr_pc' = "returned"
            /\ mr_stack' = <<>>
            /\ mr_result' = mr_gets'
            /\ UNCHANGED mr_error
       ELSE IF outcome = "429" /\ Len(mr_stack) < max_retries
       THEN /\ mr_pc' = "sleep_try"
            /\ UNCHANGED <<mr_stack, mr_result, mr_error>>
       ELSE \E to \in {Raise(mr_stack, RaisedError(outcome))} :
                /\ mr_pc' = to.pc
                /\ mr_stack' = to.stack
                /\ mr_error' = IF to.pc = "raised" THEN RaisedError(outcome) ELSE mr_error
                /\ UNCHANGED mr_result
    /\ UNCHANGED <<batch_pc, batch_i, batch_results, batch_progress, others_mr>>

\* asyncio.sleep(self.retry_delay * (retries + 1)) is over: the frame calls
\* make_request(url, retries + 1), from the try block or from the handler.
Wake ==
    /\ mr_pc \in {"sleep_try", "sleep_except"}
    /\ mr_stack' = Append(mr_stack, IF mr_pc = "sleep_try" THEN "try" ELSE "except")
    /\ mr_pc' = "acquire"
    /\ UNCHANGED <<mr_gets, mr_last, mr_first_ok, mr_result, mr_error,
                   batch_pc, batch_i, batch_results, batch_progress, others_mr>>

\* fetch_orders_batch(items): the loop reaches its first fetch_orders.
FetchOrdersBatch ==
    /\ batch_pc = "idle"
    /\ batch_pc' = "running"
    /\ batch_i' = 1
    /\ MakeRequest
    /\ UNCHANGED <<batch_results, batch_progress, others_mr>>

\* progress = int((i + 1) / total * 100), i the 0-based index of enumerate.
\* For lists of fewer than 50 items the double arithmetic of Python yields
\* exactly the truncated quotient (the first deviation is item 29 of 50).
Progress(i, total) == ((i + 1) * 100) \div total

\* results[item] = await self.fetch_orders(item), progress_callback(progress),
\* then the next item or return results.
BatchStore ==
    /\ batch_pc = "running"
    /\ mr_pc = "returned"
    /\ batch_results' = batch_results \cup {BatchItems[batch_i]}
    /\ batch_progress' = Append(batch_progress, Progress(batch_i - 1, Len(BatchItems)))
    /\ IF batch_i < Len(BatchItems)
       THEN /\ batch_i' = batch_i + 1
            /\ MakeRequest
            /\ UNCHANGED batch_pc
       ELSE /\ batch_pc' = "returned"
            /\ UNCHANGED <<batch_i, mr_pc, mr_stack, mr_gets, mr_last, mr_first_ok,
                           mr_result, mr_error>>
    /\ UNCHANGED others_mr

\* The error of fetch_orders leaves the loop and fetch_orders_batch.
BatchRaise ==
    /\ batch_pc = "running"
    /\ mr_pc = "raised"
    /\ batch_pc' = "raised"
    /\ UNCHANGED <<batch_i, batch_results, batch_progress, mr_pc, mr_stack, mr_gets, mr_last,
                   mr_first_ok, mr_result, mr_error, others_mr>>

NextMR ==
    \/ FetchOrdersBatch
    \/ Acquire
    \/ \E outcome \in Outcomes : Get(outcome)
    \/ Wake
    \/ BatchStore
    \/ BatchRaise

\* ------------------------------------------- one client per GUI operation
\* async_fetch_items and async_update_market_data each construct their own
\* WarframeMarketClient, and with it their own RateLimiter(2.0); both run in
\* threads of one process and read the same monotonic clock.
Clients == {"fetch_items", "update_market_data"}

InitClients ==
    /\ cl_pc = [c \in Clients |-> "idle"]
    /\ cl_last_call = [c \in Clients |-> 0]
    /\ cl_wake = [c \in Clients |-> 0]
    /\ cl_latest_grant = 0
    /\ cl_prev_grant = 0
    /\ cl_grants = 0

\* The client's task calls acquire() of the client's limiter; it is the only
\* task of that limiter, so the semaphore is free: it reads the clock and
\* either goes to sleep or goes on to write last_call.
ClientAcquire(c) ==
    /\ cl_pc[c] = "idle"
    /\ cl_wake' = [cl_wake EXCEPT ![c] = loop_time + SleepTime(loop_time, cl_last_call[c])]
    /\ cl_pc' = [cl_pc EXCEPT ![c] =
                    IF SleepTime(loop_time, cl_last_call[c]) > 0 THEN "sleeping" ELSE "awake"]
    /\ UNCHANGED <<cl_last_call, cl_latest_grant, cl_prev_grant, cl_grants, rlvars, others_cl>>

\* self.last_call = time() of the client's limiter: the request is granted.
ClientGrant(c) ==
    /\ cl_pc[c] \in {"sleeping", "awake"}
    /\ loop_time >= cl_wake[c]
    /\ cl_last_call' = [cl_last_call EXCEPT ![c] = loop_time]
    /\ cl_prev_grant' = cl_latest_grant
    /\ cl_latest_grant' = loop_time
    /\ cl_grants' = IF cl_grants < 2 THEN cl_grants + 1 ELSE cl_grants
    /\ cl_pc' = [cl_pc EXCEPT ![c] = "idle"]
    /\ UNCHANGED <<cl_wake, rlvars, others_cl>>

NextClients ==
    \/ \E c \in Clients : ClientAcquire(c)
    \/ \E c \in Clients : ClientGrant(c)
    \/ TickLoop

\* ------------------------------------- process_order in several sessions
\* Each session has its own connection; PostgreSQL runs their statements
\* at READ COMMITTED. A session's writes and its commit are one step here:
\* until the commit the other sessions read the old row and their writes to
\* the same row or the same order_id wait.
Sessions == {"s1", "s2"}

InitSessions ==
    /\ sx_pc = [s \in Sessions |-> "idle"]
    /\ sx_order = [s \in Sessions |-> <<>>]
    /\ sx_read = [s \in Sessions |-> <<>>]
    /\ sx_raised = {}
    /\ changes_due = [o \in OrderIds |-> 0]
    /\ inserted = [o \in OrderIds |-> 0]

\* SELECT id, initial_price, price_changes FROM order_history WHERE order_id = %s
\* followed by fetchone(): the row as committed, or none.
ExistingOrder(oh, order_id) ==
    IF order_id \in DOMAIN oh
    THEN <<[initial_price |-> oh[order_id].initial_price,
            price_changes |-> oh[order_id].price_changes]>>
    ELSE <<>>

\* Variant: order_id carries no UNIQUE constraint.
UniqueViolation_Absent(oh, order_id) == FALSE

\* order_id VARCHAR(255) UNIQUE NOT NULL: an INSERT of a stored order_id fails.
UniqueViolation(oh, order_id) == order_id \in DOMAIN oh

\* The UPDATE as the session issues it: price_changes is the value the
\* session computed from what it read, the rest is evaluated on the row.
WrittenRow(row, existing, order) ==
    UpdatedRow([row EXCEPT !.price_changes = existing.price_changes], order)

\* The session starts process_order and runs its SELECT.
TxSelect(s, wf_id, order) ==
    /\ sx_pc[s] = "idle"
    /\ order.last_seen # None
    /\ order.last_seen <= now
    /\ sx_order' = [sx_order EXCEPT ![s] = <<[wf_id |-> wf_id, order |-> order]>>]
    /\ sx_read' = [sx_read EXCEPT ![s] = ExistingOrder(order_history, order.id)]
    /\ sx_pc' = [sx_pc EXCEPT ![s] = "selected"]
    /\ sx_raised' = sx_raised \ {s}
    /\ UNCHANGED <<changes_due, inserted, dbvars, others_sx>>

\* if existing_order: the UPDATE and the commit.
TxUpdate(s) ==
    /\ sx_pc[s] = "selected"
    /\ sx_read[s] # <<>>
    /\ LET order == sx_order[s][1].order
           existing == sx_read[s][1]
       IN  /\ order_history' = [order_history EXCEPT
                                   ![order.id] = WrittenRow(@, existing, order)]
           /\ changes_due' = [changes_due EXCEPT ![order.id] =
                                 IF order.platinum # existing.initial_price THEN @ + 1 ELSE @]
           /\ changes_due'[order.id] <= MaxChanges
           /\ priceVaried' = priceVaried \cup Varied(order_history, order)
    /\ lastOp' = "process_order"
    /\ sx_pc' = [sx_pc EXCEPT ![s] = "idle"]
    /\ sx_order' = [sx_order EXCEPT ![s] = <<>>]
    /\ sx_read' = [sx_read EXCEPT ![s] = <<>>]
    /\ UNCHANGED <<item_prices, now, sx_raised, inserted, others_sx>>

\* else: the two INSERTs and the commit, when order_id is still free.
TxInsert(s) ==
    /\ sx_pc[s] = "selected"
    /\ sx_read[s] = <<>>
    /\ LET order == sx_order[s][1].order
           wf_id == sx_order[s][1].wf_id
       IN  /\ ~UniqueViolation(order_history, order.id)
           /\ order_history' = (order.id :> InsertedRow(order_history, wf_id, order))
                               @@ order_history
           /\ item_prices' = UpsertPrice(item_prices,
                                 <<wf_id, order.last_seen, order.platinum, order.order_type>>,
                                 order.quantity)
           /\ inserted' = [inserted EXCEPT ![order.id] = @ + 1]
    /\ lastOp' = "process_order"
    /\ sx_pc' = [sx_pc EXCEPT ![s] = "idle"]
    /\ sx_order' = [sx_order EXCEPT ![s] = <<>>]
    /\ sx_read' = [sx_read EXCEPT ![s] = <<>>]
    /\ UNCHANGED <<now, priceVaried, sx_raised, changes_due, others_sx>>

\* else: the INSERT into order_history fails on the UNIQUE constraint;
\* except psycopg2.Error: conn.rollback(), raise.
TxInsertFails(s) ==
    /\ sx_pc[s] = "selected"
    /\ sx_read[s] = <<>>
    /\ UniqueViolation(order_history, sx_order[s][1].order.id)
    /\ sx_raised' = sx_raised \cup {s}
    /\ sx_pc' = [sx_pc EXCEPT ![s] = "idle"]
    /\ sx_order' = [sx_order EXCEPT ![s] = <<>>]
    /\ sx_read' = [sx_read EXCEPT ![s] = <<>>]
    /\ UNCHANGED <<changes_due, inserted, dbvars, others_sx>>

NextSessions ==
    \/ \E s \in Sessions, wf_id \in WfIds, order \in Orders : TxSelect(s, wf_id, order)
    \/ \E s \in Sessions : TxUpdate(s)
    \/ \E s \in Sessions : TxInsert(s)
    \/ \E s \in Sessions : TxInsertFails(s)

\* ------------------------------- the counts of async_update_market_data
\* The listings one run saves on either path.
MaxSaved == 3

\* What can go wrong in one insert_price or insert_order call: connect()
\* raises, or a statement fails with a psycopg2.Error.
SaveFaults == {"none", "connect", "db_error"}

InitCounts ==
    /\ price_count = 0
    /\ price_errors = 0
    /\ order_count = 0
    /\ order_errors = 0
    /\ prices_written = 0
    /\ orders_written = 0

\* CREATE TABLE order_history: its columns.
OrderHistoryColumns ==
    {"id", "item_id", "user_id", "order_id", "initial_price", "final_price", "quantity",
     "side", "first_seen", "last_seen", "status", "visibility_duration", "price_changes",
     "listing_type", "created_at", "fulfilled_at"}

\* The columns named by the UPDATE and by the INSERT of insert_order.
InsertOrderUpdateColumns ==
    {"final_price", "quantity", "last_seen", "price_history", "visibilty_duration"}
InsertOrderInsertColumns ==
    {"item_id", "order_id", "initial_price", "final_price", "quantity", "side",
     "first_seen", "last_seen", "price_history"}

\* The statement of insert_order is rejected: it names a column the table
\* lacks, or it inserts no user_id (NOT NULL).
StatementFails(existing) ==
    IF existing THEN ~(InsertOrderUpdateColumns \subseteq OrderHistoryColumns)
    ELSE \/ ~(InsertOrderInsertColumns \subseteq OrderHistoryColumns)
         \/ "user_id" \notin InsertOrderInsertColumns

\* insert_order returns without raising: the store after it, and whether
\* its statement was committed rather than rolled back.
InsertOrderStore(oh, item_id, order, fault) ==
    IF fault = "db_error" \/ StatementFails(order.id \in DOMAIN oh)
    THEN [oh |-> oh, committed |-> FALSE]
    ELSE [oh |-> [oh EXCEPT ![order.id] =
                     [@ EXCEPT !.final_price = order.platinum,
                               !.quantity = order.quantity,
                               !.last_seen = order.last_seen]],
          committed |-> TRUE]

\* One listing of the price loop: the filter, insert_price, price_count += 1;
\* except Exception: price_errors += 1.
SavePrice(item_id, order, fault) ==
    /\ price_count + price_errors < MaxSaved
    /\ ~Skipped(order, now)
    /\ IF fault = "connect"
       THEN /\ price_errors' = price_errors + 1
            /\ UNCHANGED <<price_count, prices_written, item_prices>>
       ELSE /\ price_count' = price_count + 1
            /\ UNCHANGED price_errors
            /\ IF fault = "db_error"
               THEN UNCHANGED <<prices_written, item_prices>>
               ELSE /\ item_prices' = InsertPriceStore(item_prices,
                                          <<item_id, now, order.platinum, order.order_type>>,
                                          order.quantity)
                    /\ prices_written' =
                           IF <<item_id, now, order.platinum, order.order_type>>
                                  \in DOMAIN item_prices
                           THEN prices_written ELSE prices_written + 1
    /\ lastOp' = "insert_price"
    /\ UNCHANGED <<order_history, now, priceVaried, order_count, order_errors,
                   orders_written, others_cn>>

\* One listing of the order loop: the filter, insert_order, order_count += 1;
\* except Exception: order_errors += 1.
SaveOrder(item_id, order, fault) ==
    /\ order_count + order_errors < MaxSaved
    /\ ~Skipped(order, now)
    /\ IF fault = "connect"
       THEN /\ order_errors' = order_errors + 1
            /\ UNCHANGED <<order_count, orders_written, order_history>>
       ELSE \E result \in {InsertOrderStore(order_history, item_id, order, fault)} :
            /\ order_count' = order_count + 1
            /\ UNCHANGED order_errors
            /\ order_history' = result.oh
            /\ orders_written' = IF result.committed THEN orders_written + 1
                                 ELSE orders_written
    /\ lastOp' = "insert_order"
    /\ UNCHANGED <<item_prices, now, priceVaried, price_count, price_errors,
                   prices_written, others_cn>>

NextCounts ==
    \/ \E item_id \in WfIds, order \in Orders, fault \in SaveFaults :
          SavePrice(item_id, order, fault)
    \/ \E item_id \in WfIds, order \in Orders, fault \in SaveFaults :
          SaveOrder(item_id, order, fault)
    \/ Tick

\* ----------------------------------------- the HTTP session of one run
\* The ClientSessions one behaviour creates.
MaxSessions == 3

Runs == {"main", "async_fetch_items", "async_update_market_data"}

\* The steps of the try block that follow the creation of the session.
RunSteps(kind) ==
    CASE kind = "main" ->
             <<"create_tables", "fetch_and_store_items", "identify_warframes",
               "process_warframe_orders", "update_statuses">>
      [] kind = "async_fetch_items" -> <<"fetch_items">>
      [] OTHER ->
             <<"get_all_items", "fetch_prices_batch", "save_prices", "fetch_orders_batch",
               "save_orders">>

\* The steps that call make_request.
Requests(step) ==
    step \in {"fetch_and_store_items", "identify_warframes", "process_warframe_orders",
              "fetch_items", "fetch_prices_batch", "fetch_orders_batch"}

\* How a step can end: it completes, it raises, or (if not items: return)
\* it returns from the operation.
StepOutcomes(step) ==
    IF step = "get_all_items" THEN {"ok", "raise", "return"} ELSE {"ok", "raise"}

InitRuns ==
    /\ run_kind = "main"
    /\ run_pc = "idle"
    /\ run_step = 1
    /\ run_result = "none"
    /\ session = None
    /\ open_sessions = {}
    /\ next_session = 1

\* Variant: a session is created whether or not the client has one.
NoSession_Always(s) == TRUE

\* if not self.session
NoSession(s) == s = None

\* create_session(): self.session = aiohttp.ClientSession(...) unless the
\* client has one.
CreateSession(s, open, next) ==
    IF NoSession(s)
    THEN [session |-> next, open |-> open \cup {next}, next |-> next + 1]
    ELSE [session |-> s, open |-> open, next |-> next]

\* close_session(): if self.session: await self.session.close(); self.session = None
CloseSession(s, open) ==
    IF s # None THEN [session |-> None, open |-> open \ {s}]
    ELSE [session |-> s, open |-> open]

\* A run begins with a client of its own: WarframeMarketApp() in main,
\* client = WarframeMarketClient() in the UpdateTab operations.
StartRun(kind) ==
    /\ run_pc \in {"idle", "done"}
    /\ next_session <= MaxSessions
    /\ run_kind' = kind
    /\ run_pc' = "create"
    /\ run_step' = 1
    /\ run_result' = "none"
    /\ session' = None
    /\ UNCHANGED <<open_sessions, next_session, others_sn>>

\* await client.create_session(): in main it is the first statement of the
\* try block, in the UpdateTab operations it stands before the try.
OpenSession(outcome) ==
    /\ run_pc = "create"
    /\ IF outcome = "ok"
       THEN \E c \in {CreateSession(session, open_sessions, next_session)} :
               /\ session' = c.session
               /\ open_sessions' = c.open
               /\ next_session' = c.next
               /\ run_pc' = "steps"
               /\ UNCHANGED run_result
       ELSE /\ run_pc' = IF run_kind = "main" THEN "finally" ELSE "done"
            /\ run_result' = "raised"
            /\ UNCHANGED <<session, open_sessions, next_session>>
    /\ UNCHANGED <<run_kind, run_step, others_sn>>

\* One step of the try block; make_request creates the session if the
\* client has none.
RunStep(outcome) ==
    /\ run_pc = "steps"
    /\ outcome \in StepOutcomes(RunSteps(run_kind)[run_step])
    /\ \E c \in {IF Requests(RunSteps(run_kind)[run_step])
                 THEN CreateSession(session, open_sessions, next_session)
                 ELSE [session |-> session, open |-> open_sessions, next |-> next_session]} :
          /\ c.next <= MaxSessions + 1
          /\ session' = c.session
          /\ open_sessions' = c.open
          /\ next_session' = c.next
    /\ IF outcome = "ok" /\ run_step < Len(RunSteps(run_kind))
       THEN /\ run_step' = run_step + 1
            /\ UNCHANGED <<run_pc, run_result>>
       ELSE /\ run_pc' = "finally"
            /\ run_result' = CASE outcome = "ok" -> "completed"
                               [] outcome = "raise" -> "raised"
                               [] OTHER -> "returned"
            /\ UNCHANGED run_step
    /\ UNCHANGED <<run_kind, others_sn>>

\* finally: await app.cleanup() / await client.close_session()
Cleanup ==
    /\ run_pc = "finally"
    /\ \E c \in {CloseSession(session, open_sessions)} :
          /\ session' = c.session
          /\ open_sessions' = c.open
    /\ run_pc' = "done"
    /\ UNCHANGED <<run_kind, run_step, run_result, next_session, others_sn>>

NextRuns ==
    \/ \E kind \in Runs : StartRun(kind)
    \/ \E outcome \in {"ok", "raise"} : OpenSession(outcome)
    \/ \E outcome \in {"ok", "raise", "return"} : RunStep(outcome)
    \/ Cleanup

\* ------------------------------------------------- the OrderCollection
\* The calls one behaviour makes on the collection.
MaxCalls == 4

OrderTypes == {"buy", "sell"}
CollectionPrices == {10, 20}
AddedQuantities == {-1, 0, 1, 2}

\* OrderEntry(price, quantity, order_type)
OrderEntry(price, quantity, order_type) ==
    [price |-> price, quantity |-> quantity, order_type |-> order_type]

\* self.orders = {'buy': defaultdict(...), 'sell': defaultdict(...)}: a price
\* map is the list of its (key, entry) items in insertion order.
EmptyOrders == [t \in OrderTypes |-> <<>>]

\* The position of the key in the price map, 0 if it has none.
KeyIndex(price_map, price) ==
    IF \E i \in DOMAIN price_map : price_map[i].key = price
    THEN CHOOSE i \in DOMAIN price_map : price_map[i].key = price
    ELSE 0

\* price_map[price] of a defaultdict(lambda: OrderEntry(0, 0, order_type)):
\* a missing key is created with the placeholder entry.
WithKey(price_map, price, order_type) ==
    IF KeyIndex(price_map, price) # 0 THEN price_map
    ELSE Append(price_map, [key |-> price, entry |-> OrderEntry(0, 0, order_type)])

\* add_order: existing_order = self.orders[order_type][price];
\* existing_order.quantity += quantity
add_order(orders, price, quantity, order_type) ==
    LET price_map == WithKey(orders[order_type], price, order_type)
        i == KeyIndex(price_map, price)
    IN  [orders EXCEPT ![order_type] =
            [price_map EXCEPT ![i].entry.quantity = @ + quantity]]

\* Variant: placeholder entries are reported too.
Reportable_NonNegative(entry) == entry.quantity >= 0

\* if entry.quantity > 0
Reportable(entry) == entry.quantity > 0

\* The entries of one price map that get_all_orders appends.
RECURSIVE ReportOf(_, _)
ReportOf(price_map, order_type) ==
    IF price_map = <<>> THEN <<>>
    ELSE (IF Reportable(Head(price_map).entry)
          THEN <<OrderEntry(Head(price_map).key, Head(price_map).entry.quantity, order_type)>>
          ELSE <<>>) \o ReportOf(Tail(price_map), order_type)

\* get_all_orders: the buy map, then the sell map, by items().
get_all_orders(orders) == ReportOf(orders["buy"], "buy") \o ReportOf(orders["sell"], "sell")

InitCollection ==
    /\ oc_orders = EmptyOrders
    /\ oc_added = [k \in OrderTypes \X CollectionPrices |-> 0]
    /\ oc_result = <<>>
    /\ oc_before = EmptyOrders
    /\ oc_pc = "changed"
    /\ oc_calls = 0

AddOrder(price, quantity, order_type) ==
    /\ oc_calls < MaxCalls
    /\ oc_calls' = oc_calls + 1
    /\ oc_orders' = add_order(oc_orders, price, quantity, order_type)
    /\ oc_added' = [oc_added EXCEPT ![<<order_type, price>>] = @ + quantity]
    /\ oc_pc' = "changed"
    /\ UNCHANGED <<oc_result, oc_before, others_oc>>

GetAllOrders ==
    /\ oc_calls < MaxCalls
    /\ oc_calls' = oc_calls + 1
    /\ oc_result' = get_all_orders(oc_orders)
    /\ oc_before' = oc_orders
    /\ oc_pc' = "reported"
    /\ UNCHANGED <<oc_orders, oc_added, others_oc>>

\* clear(): self.orders is replaced by two empty maps.
Clear ==
    /\ oc_calls < MaxCalls
    /\ oc_calls' = oc_calls + 1
    /\ oc_orders' = EmptyOrders
    /\ oc_added' = [k \in OrderTypes \X CollectionPrices |-> 0]
    /\ oc_pc' = "changed"
    /\ UNCHANGED <<oc_result, oc_before, others_oc>>

NextCollection ==
    \/ \E price \in CollectionPrices, quantity \in AddedQuantities, order_type \in OrderTypes :
          AddOrder(price, quantity, order_type)
    \/ GetAllOrders
    \/ Clear

\* ------------------------------------------------------- pure functions
InitFn ==
    /\ fn_in = <<>>
    /\ fn_out = <<>>
    /\ fn_done = FALSE

\* ------------------------------------------------------ analyze_market_data
\* class TimeRange(Enum)
TimeRanges == {"WEEK", "MONTH", "THREE_MONTHS", "SIX_MONTHS", "ALL_TIME"}

\* datetime.min.replace(tzinfo=timezone.utc): before every time stamp
DatetimeMin == 0

\* start_date, from time_range and current_time
StartDate(time_range, current_time) ==
    CASE time_range = "WEEK" -> current_time - 7 * TicksPerDay
      [] time_range = "MONTH" -> current_time - 30 * TicksPerDay
      [] time_range = "THREE_MONTHS" -> current_time - 90 * TicksPerDay
      [] time_range = "SIX_MONTHS" -> current_time - 180 * TicksPerDay
      [] OTHER -> DatetimeMin

\* Variant: only the samples after the start of the window are selected.
Selected_After(sample, item_id, start_date) ==
    sample.item_id = item_id /\ sample.recorded_at > start_date

\* WHERE item_id = %s AND recorded_at >= %s
Selected(sample, item_id, start_date) ==
    sample.item_id = item_id /\ sample.recorded_at >= start_date

RECURSIVE SumQuantity(_)
SumQuantity(records) ==
    IF records = {} THEN 0
    ELSE LET r == CHOOSE x \in records : TRUE
         IN r.quantity + SumQuantity(records \ {r})

Minimum(S) == CHOOSE x \in S : \A y \in S : x <= y
Maximum(S) == CHOOSE x \in S : \A y \in S : x >= y

\* timestamp.date()
Date(recorded_at) == recorded_at \div TicksPerDay

\* Optional[MarketAnalysis]: None is the empty sequence, a value the
\* sequence of that value.
NoAnalysis == <<>>

\* One MarketTrend: the prices and the volume of one day (the means and the
\* deviations of the prices are left out).
Trend(day_records) ==
    LET all_prices == {r.price : r \in day_records}
        buy_prices == {r.price : r \in {x \in day_records : x.side = "buy"}}
        sell_prices == {r.price : r \in {x \in day_records : x.side # "buy"}}
    IN [min_price |-> Minimum(all_prices),
        max_price |-> Maximum(all_prices),
        volume |-> SumQuantity(day_records),
        best_buy_price |-> IF buy_prices # {} THEN Maximum(buy_prices) ELSE 0,
        best_sell_price |-> IF sell_prices # {} THEN Minimum(sell_prices) ELSE 0]

\* analyze_market_data(item_id, time_range) on the rows of item_prices, the
\* clock reading current_time: None when the SELECT returns no row, else
\* the MarketAnalysis, of which price_trends (by day) and the two volumes
\* behind demand_strength are kept.
AnalyzeMarketData(samples, item_id, time_range, current_time) ==
    LET start_date == StartDate(time_range, current_time)
        records == {r \in samples : Selected(r, item_id, start_date)}
        days == {Date(r.recorded_at) : r \in records}
    IN IF records = {} THEN NoAnalysis
       ELSE <<[price_trends |->
                  [d \in days |-> Trend({r \in records : Date(r.recorded_at) = d})],
               total_buy_volume |-> SumQuantity({r \in records : r.side = "buy"}),
               total_sell_volume |-> SumQuantity({r \in records : r.side # "buy"})]>>

\* The clock when analyze_market_data is called, and the time stamps of the
\* samples: now, and on either side of the start of each window.
AnalysisNow == 181 * TicksPerDay

SampleTimes ==
    {AnalysisNow} \cup {AnalysisNow - d * TicksPerDay - e : d \in {7, 30, 90, 180}, e \in {0, 1}}

\* Rows of item_prices, of two items; a key occurs once.
Samples ==
    [item_id : {1, 2}, recorded_at : SampleTimes, price : {10}, quantity : {1},
     side : {"buy", "sell"}]

\* The contents of item_prices: up to two rows.
SampleSets == {{}} \cup {{a, b} : a \in Samples, b \in Samples}

InitAnalysis ==
    /\ InitDB /\ InitRL /\ InitMR /\ InitClients /\ InitSessions /\ InitCounts /\ InitRuns
    /\ InitCollection
    /\ fn_in \in [samples : SampleSets, item_id : {1}, time_range : TimeRanges,
                   current_time : {AnalysisNow}]
    /\ fn_out = <<>>
    /\ fn_done = FALSE

Analyze ==
    /\ ~fn_done
    /\ fn_out' = AnalyzeMarketData(fn_in.samples, fn_in.item_id, fn_in.time_range,
                                   fn_in.current_time)
    /\ fn_done' = TRUE
    /\ UNCHANGED <<fn_in, others_fn>>

NextAnalysis == Analyze

\* --------------------------------------------------------- detect_outliers
\* Prices are integers and a threshold is a fraction <<numerator,
\* denominator>>; the comparisons of z-scores are made on integers, every
\* quantity multiplied by the same positive factor.
MaxPrices == 5
OutlierPrices == {10, 20, 100}
Thresholds == {<<1, 1>>, <<3, 2>>, <<2, 1>>}

PriceLists == UNION {[1..n -> OutlierPrices] : n \in 0..MaxPrices}

RECURSIVE SumSeq(_)
SumSeq(xs) == IF xs = <<>> THEN 0 ELSE Head(xs) + SumSeq(Tail(xs))

\* len(prices) times the deviation of prices[i] from the mean
Deviation(prices, i) == Len(prices) * prices[i] - SumSeq(prices)

\* Variant: the standard deviation of a sample (ddof=1).
Divisor_Sample(n) == n - 1

\* stats.zscore(prices) with its default ddof=0: the variance is the sum of
\* the squared deviations over n, the one of the population.
Divisor(n) == n

\* abs(z) > threshold, z being the deviation from the mean over the standard
\* deviation: the squares of both sides, times len(prices)^2 * the divisor
\* of the variance * denominator^2. With a standard deviation of 0 the z-score is
\* nan and the comparison false.
ZScoreAbove(prices, i, threshold) ==
    Deviation(prices, i) * Deviation(prices, i) * Divisor(Len(prices))
        * threshold[2] * threshold[2]
      > threshold[1] * threshold[1]
          * SumSeq([j \in DOMAIN prices |-> Deviation(prices, j) * Deviation(prices, j)])

\* detect_outliers(prices, threshold)
DetectOutliers(prices, threshold) ==
    IF prices = <<>> THEN <<>>
    ELSE [i \in DOMAIN prices |-> ZScoreAbove(prices, i, threshold)]

InitOutliers ==
    /\ InitDB /\ InitRL /\ InitMR /\ InitClients /\ InitSessions /\ InitCounts /\ InitRuns
    /\ InitCollection
    /\ fn_in \in [prices : PriceLists, threshold : Thresholds]
    /\ fn_out = <<>>
    /\ fn_done = FALSE

Detect ==
    /\ ~fn_done
    /\ fn_out' = DetectOutliers(fn_in.prices, fn_in.threshold)
    /\ fn_done' = TRUE
    /\ UNCHANGED <<fn_in, others_fn>>

NextOutliers == Detect

\* -------------------------------------------------- calculate_trimmed_mean
\* A mean is the pair <<sum, count>> of the division sum / count; 0.0 is
\* <<0, 1>>. trim_percent is a whole number of percent.
MaxValues == 4
TrimValues == {10, 20, 1000}
TrimPercents == {0, 10, 25, 50}

\* The lists handed in: every short list, and three longer ones.
TrimLists ==
    UNION {[1..n -> TrimValues] : n \in 0..MaxValues}
      \cup {<<1, 2, 3>>, <<10, 20, 30, 40, 50, 1000>>, <<1000, 10, 50, 20, 40, 30>>}

\* sorted(values), by insertion
RECURSIVE Insert(_, _)
Insert(x, sorted) ==
    IF sorted = <<>> THEN <<x>>
    ELSE IF x <= Head(sorted) THEN <<x>> \o sorted
    ELSE <<Head(sorted)>> \o Insert(x, Tail(sorted))

RECURSIVE Sorted(_)
Sorted(values) ==
    IF values = <<>> THEN <<>> ELSE Insert(Head(values), Sorted(Tail(values)))

\* Variant: the count is rounded to the nearest integer.
TrimCount_Rounded(n, trim_percent) == (n * trim_percent + 50) \div 100

\* trim_count = int(len(sorted_values) * trim_percent / 100)
TrimCount(n, trim_percent) == (n * trim_percent) \div 100

\* sorted_values[trim_count:-trim_count]
Slice(sorted_values, trim_count) ==
    IF 2 * trim_count >= Len(sorted_values) THEN <<>>
    ELSE SubSeq(sorted_values, trim_count + 1, Len(sorted_values) - trim_count)

\* calculate_trimmed_mean(values, trim_percent)
CalculateTrimmedMean(values, trim_percent) ==
    IF values = <<>> THEN <<0, 1>>
    ELSE IF Len(values) < 3 THEN <<SumSeq(values), Len(values)>>
    ELSE LET sorted_values == Sorted(values)
             trim_count == TrimCount(Len(sorted_values), trim_percent)
             trimmed_values == IF trim_count > 0 THEN Slice(sorted_values, trim_count)
                               ELSE sorted_values
         IN IF trimmed_values # <<>>
            THEN <<SumSeq(trimmed_values), Len(trimmed_values)>>
            ELSE <<0, 1>>

InitTrimmed ==
    /\ InitDB /\ InitRL /\ InitMR /\ InitClients /\ InitSessions /\ InitCounts /\ InitRuns
    /\ InitCollection
    /\ fn_in \in [values : TrimLists, trim_percent : TrimPercents]
    /\ fn_out = <<>>
    /\ fn_done = FALSE

TrimmedMean ==
    /\ ~fn_done
    /\ fn_out' = CalculateTrimmedMean(fn_in.values, fn_in.trim_percent)
    /\ fn_done' = TRUE
    /\ UNCHANGED <<fn_in, others_fn>>

NextTrimmed == TrimmedMean

\* ----------------------------- analyze_market_data: trends, trading hours
\* The rows the SELECT returns: price, quantity, side and recorded_at, of
\* which the calendar day (timestamp.date()) and the hour (timestamp.hour)
\* are kept.
MaxRecords == 3
RecordDays == {1, 2}
RecordHours == {3, 5}
RecordPrices == {10, 20}
Record ==
    [price : RecordPrices, quantity : {1, 2}, side : {"buy", "sell"},
     day : RecordDays, hour : RecordHours]

\* ORDER BY recorded_at ASC; rows of one instant come in any order.
TimeAscending(records) ==
    \A i \in 1..(Len(records) - 1) :
        \/ records[i].day < records[i + 1].day
        \/ records[i].day = records[i + 1].day /\ records[i].hour <= records[i + 1].hour

RECURSIVE RecordListsOf(_)
RecordListsOf(n) ==
    IF n = 0 THEN {<<>>}
    ELSE LET shorter == RecordListsOf(n - 1)
             longest == {records \in shorter : Len(records) = n - 1}
         IN shorter \cup
            {Append(p[1], p[2]) :
                p \in {q \in longest \X Record : TimeAscending(Append(q[1], q[2]))}}

RecordLists == RecordListsOf(MaxRecords)

\* [p for p, _ in orders]
PricesOf(records) == [i \in DOMAIN records |-> records[i].price]

\* Variant: every order counts once, whatever its quantity.
QuantitiesOf_Count(records) == [i \in DOMAIN records |-> 1]

\* sum(q for _, q in orders)
QuantitiesOf(records) == [i \in DOMAIN records |-> records[i].quantity]

\* statistics.mean, a fraction <<numerator, denominator>>
Mean(xs) == <<SumSeq(xs), Len(xs)>>

\* a - b and a < b on fractions of positive denominator
Minus(a, b) == <<a[1] * b[2] - b[1] * a[2], a[2] * b[2]>>
Less(a, b) == a[1] * b[2] < b[1] * a[2]

MinSeq(xs) == CHOOSE x \in {xs[i] : i \in DOMAIN xs} : \A i \in DOMAIN xs : x <= xs[i]
MaxSeq(xs) == CHOOSE x \in {xs[i] : i \in DOMAIN xs} : \A i \in DOMAIN xs : x >= xs[i]

\* statistics.stdev(xs), squared: the sum of the squared deviations from
\* the mean over len(xs) - 1, as a fraction; len(xs) > 1.
Stdev2(xs) ==
    <<Len(xs) * SumSeq([i \in DOMAIN xs |-> xs[i] * xs[i]]) - SumSeq(xs) * SumSeq(xs),
      Len(xs) * (Len(xs) - 1)>>

RECURSIVE Product(_)
Product(ns) == IF ns = <<>> THEN 1 ELSE Head(ns) * Product(Tail(ns))

\* statistics.stdev over fractions, squared: the fractions are brought to
\* the common denominator first.
Stdev2OfMeans(means) ==
    LET common == Product([i \in DOMAIN means |-> means[i][2]])
        scaled == [i \in DOMAIN means |-> means[i][1] * (common \div means[i][2])]
        v == Stdev2(scaled)
    IN <<v[1], v[2] * common * common>>

\* Variant: the cheapest buy price counts as the best.
BestBuyPrice_Min(buy_prices) == IF buy_prices # <<>> THEN MinSeq(buy_prices) ELSE 0

\* best_buy_price=max(buy_prices) if buy_prices else 0
BestBuyPrice(buy_prices) == IF buy_prices # <<>> THEN MaxSeq(buy_prices) ELSE 0

\* best_sell_price=min(sell_prices) if sell_prices else 0
BestSellPrice(sell_prices) == IF sell_prices # <<>> THEN MinSeq(sell_prices) ELSE 0

\* buy_orders[day_date], sell_orders[day_date]: the rows of the day, in the
\* order of the SELECT.
BuyOrders(records, day_date) ==
    SelectSeq(records, LAMBDA r : r.day = day_date /\ r.side = "buy")
SellOrders(records, day_date) ==
    SelectSeq(records, LAMBDA r : r.day = day_date /\ r.side # "buy")

\* The MarketTrend of one day of buy_orders or sell_orders.
MarketTrend(records, day_date) ==
    LET buy_prices == PricesOf(BuyOrders(records, day_date))
        sell_prices == PricesOf(SellOrders(records, day_date))
        all_prices == buy_prices \o sell_prices
    IN [avg_price |-> Mean(all_prices),
        min_price |-> MinSeq(all_prices),
        max_price |-> MaxSeq(all_prices),
        volatility2 |-> IF Len(all_prices) > 1 THEN Stdev2(all_prices) ELSE <<0, 1>>,
        volume |-> SumSeq(QuantitiesOf(BuyOrders(records, day_date)
                                       \o SellOrders(records, day_date))),
        market_spread |-> IF buy_prices # <<>> /\ sell_prices # <<>>
                          THEN Minus(Mean(sell_prices), Mean(buy_prices)) ELSE <<0, 1>>,
        best_buy_price |-> BestBuyPrice(buy_prices),
        best_sell_price |-> BestSellPrice(sell_prices),
        timestamp |-> day_date]

\* sorted(set(buy_orders.keys()) | set(sell_orders.keys()))
RECURSIVE SortedDays(_)
SortedDays(days) ==
    IF days = {} THEN <<>>
    ELSE LET first == CHOOSE d \in days : \A e \in days : d <= e
         IN <<first>> \o SortedDays(days \ {first})

\* The keys of hourly_prices, in the order in which the dict received them.
RECURSIVE HourKeys(_, _)
HourKeys(records, seen) ==
    IF records = <<>> THEN <<>>
    ELSE IF Head(records).hour \in seen THEN HourKeys(Tail(records), seen)
    ELSE <<Head(records).hour>> \o HourKeys(Tail(records), seen \cup {Head(records).hour})

\* statistics.mean(x[1]) of one item of hourly_prices
HourMean(records, hour) == Mean(PricesOf(SelectSeq(records, LAMBDA r : r.hour = hour)))

\* min(hourly_prices.items(), key=...)[0]: a later item replaces the best
\* one so far only when its key is strictly smaller.
RECURSIVE MinHour(_, _, _)
MinHour(keys, best, records) ==
    IF keys = <<>> THEN best
    ELSE MinHour(Tail(keys),
                 IF Less(HourMean(records, Head(keys)), HourMean(records, best))
                 THEN Head(keys) ELSE best,
                 records)

\* max(hourly_prices.items(), key=...)[0]: only a strictly greater key
\* replaces the best one so far.
RECURSIVE MaxHour(_, _, _)
MaxHour(keys, best, records) ==
    IF keys = <<>> THEN best
    ELSE MaxHour(Tail(keys),
                 IF Less(HourMean(records, best), HourMean(records, Head(keys)))
                 THEN Head(keys) ELSE best,
                 records)

\* f"{hour:02d}": the two digits of the hour
Format02d(hour) == <<hour \div 10, hour % 10>>

\* analyze_market_data from "records = cur.fetchall()" on: None for no
\* record, else the MarketAnalysis (avg_daily_volume, demand_strength and
\* seasonal_patterns are left out).
AnalyzeRecords(records) ==
    IF records = <<>> THEN NoAnalysis
    ELSE LET days == SortedDays({records[i].day : i \in DOMAIN records})
             price_trends == [i \in DOMAIN days |-> MarketTrend(records, days[i])]
             keys == HourKeys(records, {})
         IN <<[price_trends |-> price_trends,
               market_spread_trend |->
                   [i \in DOMAIN price_trends |-> price_trends[i].market_spread],
               price_volatility2 |->
                   IF Len(price_trends) > 1
                   THEN Stdev2OfMeans([i \in DOMAIN price_trends |-> price_trends[i].avg_price])
                   ELSE <<0, 1>>,
               best_buy_time |-> Format02d(MinHour(Tail(keys), Head(keys), records)),
               best_sell_time |-> Format02d(MaxHour(Tail(keys), Head(keys), records))]>>

InitTrends ==
    /\ InitDB /\ InitRL /\ InitMR /\ InitClients /\ InitSessions /\ InitCounts /\ InitRuns
    /\ InitCollection
    /\ fn_in \in RecordLists
    /\ fn_out = <<>>
    /\ fn_done = FALSE

AnalyzeTrends ==
    /\ ~fn_done
    /\ fn_out' = AnalyzeRecords(fn_in)
    /\ fn_done' = TRUE
    /\ UNCHANGED <<fn_in, others_fn>>

NextTrends == AnalyzeTrends

\* ---------------------------------------------- detect_rapid_price_changes
\* Time stamps of order_history in ticks of 1/TicksPerHour hours.
TicksPerHour == 2

\* "Consider >10 plat/hour rapid"
RapidRate == 10

\* The rows the SELECT can find: initial_price, final_price, first_seen and
\* last_seen of an order (last_seen before first_seen occurs in the store).
RapidRows ==
    [initial_price : {20}, final_price : {9, 10, 20, 30, 31, 35, 36},
     first_seen : {0, 1}, last_seen : 0..(2 * TicksPerHour)]

\* order_history as far as the SELECT reads it: no row, or the row of o1.
RapidStores == {<<>>} \cup {("o1" :> row) : row \in RapidRows}

Abs(x) == IF x < 0 THEN -x ELSE x

\* Variant: an order visible for exactly one hour is still too short.
TooShort_Inclusive(ticks) == ticks <= TicksPerHour

\* if hours < 1, hours being EXTRACT(EPOCH FROM (last_seen - first_seen))/3600
TooShort(ticks) == ticks < TicksPerHour

\* abs(final_price - initial_price) / hours, a fraction
PriceChangeRate(row, ticks) == <<Abs(row.final_price - row.initial_price) * TicksPerHour, ticks>>

\* detect_rapid_price_changes(order_id): (is_rapid_change, change_rate_per_hour),
\* (False, 0.0) being <<FALSE, <<0, 1>>>>.
DetectRapidPriceChanges(oh, order_id) ==
    IF order_id \notin DOMAIN oh THEN <<FALSE, <<0, 1>>>>
    ELSE LET row == oh[order_id]
             ticks == row.last_seen - row.first_seen
         IN IF TooShort(ticks) THEN <<FALSE, <<0, 1>>>>
            ELSE LET price_change_rate == PriceChangeRate(row, ticks)
                 IN <<price_change_rate[1] > RapidRate * price_change_rate[2],
                      price_change_rate>>

InitRapid ==
    /\ InitDB /\ InitRL /\ InitMR /\ InitClients /\ InitSessions /\ InitCounts /\ InitRuns
    /\ InitCollection
    /\ fn_in \in [oh : RapidStores, order_id : OrderIds]
    /\ fn_out = <<>>
    /\ fn_done = FALSE

DetectRapid ==
    /\ ~fn_done
    /\ fn_out' = DetectRapidPriceChanges(fn_in.oh, fn_in.order_id)
    /\ fn_done' = TRUE
    /\ UNCHANGED <<fn_in, others_fn>>

NextRapid == DetectRapid

\* ---------------------------------------------------------- specifications
Init ==
    /\ InitDB /\ InitRL /\ InitMR /\ InitClients /\ InitSessions /\ InitCounts /\ InitRuns
    /\ InitCollection /\ InitFn

Spec == Init /\ [][Next]_vars

SpecPipeline == Init /\ [][NextPipeline]_vars

SpecSnapshot == Init /\ [][NextSnapshot]_vars

SpecRL == Init /\ [][NextRL]_vars

SpecPrices == Init /\ [][NextPrices]_vars

SpecFaults == Init /\ [][NextFaults]_vars

SpecMR == Init /\ [][NextMR]_vars

SpecAnalysis == InitAnalysis /\ [][NextAnalysis]_vars

SpecOutliers == InitOutliers /\ [][NextOutliers]_vars

SpecTrimmed == InitTrimmed /\ [][NextTrimmed]_vars

SpecTrends == InitTrends /\ [][NextTrends]_vars

SpecRapid == InitRapid /\ [][NextRapid]_vars

SpecCounts == Init /\ [][NextCounts]_vars

SpecRuns == Init /\ [][NextRuns]_vars

SpecCollection == Init /\ [][NextCollection]_vars

SpecGets == Init /\ [][NextGets]_vars

SpecClients == Init /\ [][NextClients]_vars

SpecSessions == Init /\ [][NextSessions]_vars

\* The rate limiter lets every caller through, every sleep ends and every
\* GET comes to an outcome.
SpecMRFair ==
    /\ SpecMR
    /\ WF_vars(Acquire)
    /\ WF_vars(\E outcome \in Outcomes : Get(outcome))
    /\ WF_vars(Wake)

\* ------------------------------------------------------------ properties
Rows == DOMAIN order_history

\* C1: when process_order ingests a listing for an order_id that has a record
\* and the listing's price differs from the stored final_price, price_changes
\* grows by exactly 1 (also when the new price equals initial_price).
C1_ChangedPriceCounted ==
    [][\A o \in Rows :
         (lastOp' = "process_order"
            /\ order_history'[o].final_price # order_history[o].final_price)
         => order_history'[o].price_changes = order_history[o].price_changes + 1]_vars

\* C2: as long as every listing ingested for an order_id carries the same
\* price, the record's price_changes is 0.
C2_SamePriceNoChange ==
    \A o \in Rows : o \notin priceVaried => order_history[o].price_changes = 0

\* C2 witness: a record updated at least once, always at its first price.
C2_Witness ==
    \E o \in Rows :
        /\ o \notin priceVaried
        /\ order_history[o].visibility_duration # NULL
        /\ lastOp = "process_order"

\* C3: re-ingesting a listing whose price equals the stored final_price never
\* increases price_changes, also when final_price differs from initial_price.
C3_UnchangedPriceNotCounted ==
    [][\A o \in Rows :
         (lastOp' = "process_order"
            /\ order_history'[o].final_price = order_history[o].final_price)
         => order_history'[o].price_changes <= order_history[o].price_changes]_vars

\* C4: a record created by process_order has listing_type 'relist' if a
\* record with another order_id exists for the same (user_id, item_id), and
\* 'new' otherwise.
C4_ListingTypeAtCreation ==
    [][\A o \in DOMAIN order_history' \ Rows :
         lastOp' = "process_order"
         => order_history'[o].listing_type =
              IF \E p \in Rows :
                    /\ order_history[p].user_id = order_history'[o].user_id
                    /\ order_history[p].item_id = order_history'[o].item_id
              THEN "relist" ELSE "new"]_vars

\* C5: status follows active -> dead only: a record is created active, a
\* dead record stays dead, and only update_order_status changes a status
\* (process_order never does).
C5_StatusMachine ==
    [][/\ Rows \subseteq DOMAIN order_history'
       /\ \A o \in DOMAIN order_history' \ Rows : order_history'[o].status = "active"
       /\ \A o \in Rows :
            /\ order_history[o].status = "dead" => order_history'[o].status = "dead"
            /\ order_history'[o].status # order_history[o].status
                 => lastOp' = "update_order_status" /\ order_history'[o].status = "dead"]_vars

\* C5 witness: a dead record that process_order has updated since with a
\* last_seen inside the 30 days, and that is still dead.
C5_Witness ==
    \E o \in Rows :
        /\ order_history[o].status = "dead"
        /\ order_history[o].last_seen >= now - StaleTicks
        /\ lastOp = "process_order"

\* C6: update_order_status sets to dead exactly the records that are active
\* with last_seen older than 30 days before now, and changes nothing else:
\* no other record, no other field, no price sample.
C6_SweepFrame ==
    [][lastOp' = "update_order_status"
       => /\ DOMAIN order_history' = Rows
          /\ \A o \in Rows :
               order_history'[o] =
                 IF /\ order_history[o].status = "active"
                    /\ order_history[o].last_seen < now - StaleDays * TicksPerDay
                 THEN [order_history[o] EXCEPT !.status = "dead"]
                 ELSE order_history[o]
          /\ item_prices' = item_prices]_vars

\* C6 witness: after a sweep, one record is dead and another, seen exactly
\* 30 days ago, is still active.
C6_Witness ==
    /\ lastOp = "update_order_status"
    /\ \E o \in Rows : order_history[o].status = "dead"
    /\ \E o \in Rows :
        /\ order_history[o].status = "active"
        /\ order_history[o].last_seen = now - StaleTicks

\* C7: right after update_order_status has run, running it again at the
\* same clock changes no record.
C7_SweepIdempotent ==
    lastOp = "update_order_status" => SweepStore(order_history, now) = order_history

\* C7 witness: a sweep has just run and every one of two records is dead.
C7_Witness ==
    /\ lastOp = "update_order_status"
    /\ Rows = OrderIds
    /\ \A o \in Rows : order_history[o].status = "dead"

\* C8: every record has first_seen <= last_seen, also after snapshots that
\* arrive out of order.
C8_FirstSeenBeforeLastSeen ==
    \A o \in Rows : order_history[o].first_seen <= order_history[o].last_seen

\* The columns of a row other than the derived visibility_duration (which a
\* first update turns from NULL into an interval).
Columns(row) == [row EXCEPT !.visibility_duration = NULL]

SameStore(a, b) ==
    /\ DOMAIN a.oh = DOMAIN b.oh
    /\ \A o \in DOMAIN a.oh : Columns(a.oh[o]) = Columns(b.oh[o])
    /\ a.ip = b.ip

\* C9: from any state of the store, ingesting the same order-book snapshot
\* twice in succession leaves order_history and item_prices as ingesting it
\* once does.
C9_SnapshotIdempotent ==
    \A wf_id \in WfIds, orders \in Snapshots :
        (\A i \in DOMAIN orders : orders[i].last_seen <= now)
        => LET once == ProcessSingleWarframeStore(Store, wf_id, orders, now) IN
           SameStore(ProcessSingleWarframeStore(once, wf_id, orders, now), once)

\* C10: grants are issued one at a time, and the times of two successive
\* grants differ by at least min_interval.
C10_GrantsSpaced ==
    /\ Cardinality({t \in Tasks : pc[t] \in {"sleeping", "awake"}}) <= 1
    /\ grants >= 2 => last_call - prev_call >= min_interval

\* C10 witness: two grants exactly min_interval apart, the second one to a
\* task that had to wait for the semaphore and then sleep.
C10_Witness ==
    /\ grants >= 2
    /\ last_call - prev_call = min_interval
    /\ \E t \in Tasks : pc[t] = "waiting"

\* C11: a make_request call sends at most max_retries + 1 GETs, whatever the
\* outcomes are, in particular when every attempt is answered with 429.
C11_AtMostFourGets == mr_gets <= max_retries + 1

\* C12: the call returns the payload of its first successful attempt and
\* sends nothing after a success; when it raises, no attempt succeeded and
\* the error is the one of the last attempt, the 429 error after a 429 and
\* the transport error after a transport error.
C12_FirstSuccessOrLastError ==
    /\ mr_first_ok # 0 => mr_gets = mr_first_ok
    /\ mr_pc = "returned" => mr_first_ok # 0 /\ mr_result = mr_first_ok
    /\ mr_pc = "raised" =>
          /\ mr_first_ok = 0
          /\ mr_last = "429" => mr_error = "ClientResponseError_429"
          /\ mr_last = "http_error" => mr_error = "ClientResponseError"
          /\ mr_last = "transport" => mr_error = "ClientConnectionError"
          /\ mr_last = "timeout" => mr_error = "TimeoutError"

\* C12 witness: after a fetch that returned, a call has used up its retries
\* and raised on a transport error.
C12_Witness ==
    /\ batch_results # {}
    /\ mr_pc = "raised"
    /\ mr_last = "transport"
    /\ mr_gets > 1

\* C13: every make_request call comes to an end, returning or raising, when
\* the rate limiter, the sleeps and the GETs do.
C13_Terminates ==
    (mr_pc \in {"acquire", "get", "sleep_try", "sleep_except"})
        ~> (mr_pc \in {"returned", "raised"})

\* C13 witness: a call that went through retries of both kinds has ended.
C13_Witness ==
    /\ mr_pc = "raised"
    /\ mr_gets > max_retries + 1

\* C17: the failure of one item does not keep a batch from reaching its
\* remaining items: when fetch_orders_batch ends, every item was fetched or
\* at least tried.
C17_BatchReachesEveryItem ==
    batch_pc \in {"returned", "raised"} => batch_i = Len(BatchItems)

\* C14: appending a price sample twice under one key (item_id, recorded_at,
\* price, side), with quantities q1 and q2, leaves one row under that key
\* whose quantity is q1 + q2, through insert_price as through the sample
\* insert of process_order.
C14_SampleQuantitiesSummed ==
    \A key \in DOMAIN appended :
        key \in DOMAIN item_prices /\ item_prices[key] = appended[key]

\* The listings of the latest snapshot, and the store after it.
LastOrders == lastSnapshot.orders

StoreAfter == [oh |-> order_history', ip |-> item_prices']

\* C15 as stated: the listings of one snapshot are applied atomically; when
\* the processing of any of them fails, none of them is committed.
C15_SnapshotAtomic ==
    [][(lastOp' = "process_single_warframe" /\ lastFailing' # {})
         => StoreAfter = Store]_vars

\* C15, amended: the listings of one snapshot are committed one by one; a
\* failure keeps only the failed listing out, and the store is left as the
\* ingestion of the other listings, in their order, leaves it.
C15_ListingsCommittedOneByOne ==
    [][lastOp' = "process_single_warframe"
         => LET committed == IngestOrders(Store, lastSnapshot'.wf_id,
                                          Committed(LastOrders', lastFailing'), now)
            IN StoreAfter =
                 IF ActiveOrderIds(LastOrders', now) # {}
                 THEN [committed EXCEPT !.oh = SweepStore(committed.oh, now)]
                 ELSE committed]_vars

\* C15 witness: the update of a stored order failed and a listing that
\* came after it in the snapshot is in the store.
C15_Witness ==
    \E i, j \in DOMAIN LastOrders :
        /\ i < j
        /\ LastOrders[i].id \in lastFailing
        /\ LastOrders[i].id \in Rows
        /\ LastOrders[j].id \notin lastFailing
        /\ LastOrders[j].id \in Rows
        /\ order_history[LastOrders[j].id].final_price = LastOrders[j].platinum

SampleKey(wf_id, order) == <<wf_id, order.last_seen, order.platinum, order.order_type>>

Quantity(ip, key) == IF key \in DOMAIN ip THEN ip[key] ELSE 0

\* The quantity that the committed listings of new orders add under a key.
RECURSIVE CommittedQuantity(_, _, _, _, _)
CommittedQuantity(orders, failing, oh, wf_id, key) ==
    IF orders = <<>> THEN 0
    ELSE (IF /\ Head(orders).id \notin failing
             /\ Head(orders).id \notin DOMAIN oh
             /\ SampleKey(wf_id, Head(orders)) = key
          THEN Head(orders).quantity ELSE 0)
         + CommittedQuantity(Tail(orders), failing, oh, wf_id, key)

\* C16: a persistence error on one listing undoes the writes of that
\* listing alone, its order_history row and its item_prices sample
\* together, and the loop goes on: every other listing is stored.
C16_FailedListingRolledBack ==
    [][lastOp' = "process_single_warframe"
         => \A i \in DOMAIN LastOrders' :
              LET order == LastOrders'[i]
                  key == SampleKey(lastSnapshot'.wf_id, order)
              IN IF order.id \in lastFailing'
                 THEN /\ order.id \in Rows <=> order.id \in DOMAIN order_history'
                      /\ order.id \in Rows =>
                            [order_history'[order.id] EXCEPT !.status = "active"]
                              = [order_history[order.id] EXCEPT !.status = "active"]
                      /\ Quantity(item_prices', key) =
                            Quantity(item_prices, key)
                              + CommittedQuantity(LastOrders', lastFailing', order_history,
                                                  lastSnapshot'.wf_id, key)
                 ELSE \/ Skipped(order, now)
                      \/ /\ order.id \in DOMAIN order_history'
                         /\ order_history'[order.id].final_price = order.platinum
                         /\ order_history'[order.id].last_seen = order.last_seen]_vars

\* C16 witness: the insertion of a new order failed, it has no row, and a
\* listing that came after it in the snapshot is in the store.
C16_Witness ==
    \E i, j \in DOMAIN LastOrders :
        /\ i < j
        /\ LastOrders[i].id \in lastFailing
        /\ LastOrders[i].id \notin Rows
        /\ LastOrders[j].id \notin lastFailing
        /\ LastOrders[j].id \in Rows

\* C18: a listing whose last_seen is older than 30 days when it is ingested
\* creates no order record; the cutoff being the one of the sweep, a record
\* that process_single_warframe has just created is within the 30 days and
\* is left active by update_order_status at that instant.
C18_CreatedRecordNotStale ==
    [][lastOp' = "process_single_warframe"
         => \A o \in DOMAIN order_history' \ Rows :
              /\ order_history'[o].last_seen >= now - StaleTicks
              /\ order_history'[o].status = "active"]_vars

\* The samples of the item whose recorded_at lies in the window: within
\* the last 7, 30, 90 or 180 days, the start included, or any for all-time.
InWindow ==
    {r \in fn_in.samples :
        /\ r.item_id = fn_in.item_id
        /\ \/ fn_in.time_range = "ALL_TIME"
           \/ fn_in.time_range = "WEEK" /\ fn_in.current_time - r.recorded_at <= 7 * TicksPerDay
           \/ fn_in.time_range = "MONTH" /\ fn_in.current_time - r.recorded_at <= 30 * TicksPerDay
           \/ fn_in.time_range = "THREE_MONTHS" /\ fn_in.current_time - r.recorded_at <= 90 * TicksPerDay
           \/ fn_in.time_range = "SIX_MONTHS" /\ fn_in.current_time - r.recorded_at <= 180 * TicksPerDay}

\* C19: analyze_market_data returns None exactly when the item has no
\* price sample with recorded_at >= the start of the window (now minus 7,
\* 30, 90 or 180 days, unbounded for all-time); otherwise it returns a
\* MarketAnalysis that is not empty.
C19_NoneIffNoSampleInWindow ==
    fn_done =>
        /\ fn_out = NoAnalysis <=> InWindow = {}
        /\ fn_out # NoAnalysis => DOMAIN fn_out[1].price_trends # {}

\* C19 witness: None is returned for an item whose only sample is one tick
\* older than the start of the window, next to a sample of another item
\* inside the window.
C19_Witness ==
    /\ fn_done
    /\ fn_out = NoAnalysis
    /\ \E r \in fn_in.samples :
          /\ r.item_id = fn_in.item_id
          /\ r.recorded_at = StartDate(fn_in.time_range, fn_in.current_time) - 1
    /\ \E r \in fn_in.samples :
          /\ r.item_id # fn_in.item_id
          /\ r.recorded_at = fn_in.current_time

\* |z-score of prices[i]| > threshold, the z-score taken with the standard
\* deviation of the population: (x - mean)^2 > threshold^2 * variance, the
\* variance being mean(x^2) - mean(x)^2; both sides times n^2 * denominator^2.
Outlier(prices, i, threshold) ==
    LET n == Len(prices)
        sum == SumSeq(prices)
        squares == SumSeq([j \in DOMAIN prices |-> prices[j] * prices[j]])
    IN (n * prices[i] - sum) * (n * prices[i] - sum) * threshold[2] * threshold[2]
         > threshold[1] * threshold[1] * (n * squares - sum * sum)

FlagsByZScore ==
    /\ Len(fn_out) = Len(fn_in.prices)
    /\ \A i \in DOMAIN fn_in.prices :
          fn_out[i] <=> Outlier(fn_in.prices, i, fn_in.threshold)

\* C20 as stated: detect_outliers returns a list as long as its input whose
\* element i is true iff |z-score of prices[i]| > threshold, and for
\* [10,10,10,10,100] with threshold 2.0 it flags the 100 and no other value.
C20_OutliersFlagged ==
    fn_done =>
        /\ FlagsByZScore
        /\ (fn_in.prices = <<10, 10, 10, 10, 100>> /\ fn_in.threshold = <<2, 1>>)
              => fn_out = <<FALSE, FALSE, FALSE, FALSE, TRUE>>

\* C20, amended: the list has the length of the input and element i is true
\* iff |z-score of prices[i]| > threshold; in [10,10,10,10,100] the z-score
\* of 100 is exactly 2.0, so with threshold 2.0 no value is flagged, and
\* with threshold 1.5 the 100 is flagged and no other value.
C20_OutliersAboveThreshold ==
    fn_done =>
        /\ FlagsByZScore
        /\ fn_in.prices = <<10, 10, 10, 10, 100>> =>
              /\ fn_in.threshold = <<2, 1>>
                    => fn_out = <<FALSE, FALSE, FALSE, FALSE, FALSE>>
              /\ fn_in.threshold = <<3, 2>>
                    => fn_out = <<FALSE, FALSE, FALSE, FALSE, TRUE>>

\* C20 witness: detect_outliers has returned for [10,10,10,10,100] and 2.0.
C20_Witness ==
    /\ fn_done
    /\ fn_in.prices = <<10, 10, 10, 10, 100>>
    /\ fn_in.threshold = <<2, 1>>
    /\ Len(fn_out) = 5

\* The rearrangements of a list.
Rearranged(values) ==
    {[i \in DOMAIN values |-> values[p[i]]] :
        p \in {q \in [DOMAIN values -> DOMAIN values] :
                  \A i, j \in DOMAIN values : i # j => q[i] # q[j]}}

Ascending(values) == \A i, j \in DOMAIN values : i < j => values[i] <= values[j]

\* k = floor(n * trim_percent / 100)
Dropped(n, trim_percent) ==
    CHOOSE k \in 0..n : 100 * k <= n * trim_percent /\ n * trim_percent < 100 * (k + 1)

\* C21: calculate_trimmed_mean drops k = floor(n * trim_percent / 100)
\* entries from each end of the sorted input and averages the rest; with
\* k = 0 or n < 3 the result is the plain mean of all values, as for
\* [10,20,30,40,50,1000] and [1,2,3] at 10%; and the result is the same for
\* every order of the input values.
C21_TrimmedMean ==
    fn_done =>
      LET values == fn_in.values
          n == Len(values)
          k == Dropped(n, fn_in.trim_percent)
      IN /\ (n > 0 /\ (k = 0 \/ n < 3)) => fn_out = <<SumSeq(values), n>>
         /\ (n >= 3 /\ k > 0 /\ 2 * k < n) =>
               \E sorted \in Rearranged(values) :
                   /\ Ascending(sorted)
                   /\ fn_out = <<SumSeq(SubSeq(sorted, k + 1, n - k)), n - 2 * k>>
         /\ (values = <<10, 20, 30, 40, 50, 1000>> /\ fn_in.trim_percent = 10)
               => fn_out = <<1150, 6>>
         /\ (values = <<1, 2, 3>> /\ fn_in.trim_percent = 10) => fn_out = <<6, 3>>
         /\ \A other \in Rearranged(values) :
               CalculateTrimmedMean(other, fn_in.trim_percent) = fn_out

\* C21 witness: entries were dropped from a list given out of order, the
\* count of dropped entries being a truncated quotient.
C21_Witness ==
    /\ fn_done
    /\ fn_in.values = <<1000, 10, 50, 20, 40, 30>>
    /\ fn_in.trim_percent = 25
    /\ fn_out = <<140, 4>>

\* C22: after process_order has updated the record of a listing's order,
\* the record's final_price, quantity and last_seen are the listing's, and
\* visibility_duration is last_seen - first_seen.
C22_UpdateCopiesListing ==
    \A wf_id \in WfIds, order \in Listings :
        (order.id \in Rows /\ order.last_seen <= now)
        => LET row == ProcessOrderStore(Store, wf_id, order).oh[order.id] IN
           /\ row.final_price = order.platinum
           /\ row.quantity = order.quantity
           /\ row.last_seen = order.last_seen
           /\ row.visibility_duration = <<row.last_seen - row.first_seen>>

\* C23: for an order_id with no record process_order inserts one with
\* initial_price = final_price = the listing's price, first_seen =
\* last_seen = the listing's last_seen, price_changes = 0 and status
\* active, and adds the listing's quantity under the sample key (item,
\* last_seen, price, side), leaving the other samples alone; for an
\* order_id that has a record it leaves item_prices as it is.
C23_InsertWithSample ==
    \A wf_id \in WfIds, order \in Listings :
        order.last_seen <= now
        => LET after == ProcessOrderStore(Store, wf_id, order)
               key == <<wf_id, order.last_seen, order.platinum, order.order_type>>
           IN IF order.id \in Rows
              THEN after.ip = item_prices
              ELSE /\ DOMAIN after.oh = Rows \cup {order.id}
                   /\ after.oh[order.id].initial_price = order.platinum
                   /\ after.oh[order.id].final_price = order.platinum
                   /\ after.oh[order.id].first_seen = order.last_seen
                   /\ after.oh[order.id].last_seen = order.last_seen
                   /\ after.oh[order.id].price_changes = 0
                   /\ after.oh[order.id].status = "active"
                   /\ DOMAIN after.ip = DOMAIN item_prices \cup {key}
                   /\ after.ip[key] = order.quantity
                         + (IF key \in DOMAIN item_prices THEN item_prices[key] ELSE 0)
                   /\ \A k \in DOMAIN item_prices \ {key} : after.ip[k] = item_prices[k]

\* C23 witness: process_order has created two records from listings of one
\* sample key and updated one of them since; the sample holds the two
\* quantities.
C23_Witness ==
    /\ lastOp = "process_order"
    /\ \E o, p \in Rows :
          /\ o # p
          /\ order_history[o].visibility_duration = NULL
          /\ order_history[p].visibility_duration # NULL
          /\ order_history[o].first_seen = order_history[p].first_seen
          /\ order_history[o].initial_price = order_history[p].initial_price
          /\ item_prices[<<order_history[o].item_id, order_history[o].first_seen,
                            order_history[o].initial_price, order_history[o].side>>] = 2

\* C24: once a record exists, no ingestion and no sweep changes its
\* listing_type, initial_price, first_seen, user_id, item_id or side, and
\* the record stays; listing_type is not revised when further orders of
\* the same (user_id, item) arrive.
C24_CreationColumnsFrozen ==
    [][\A o \in Rows :
         /\ o \in DOMAIN order_history'
         /\ order_history'[o].listing_type = order_history[o].listing_type
         /\ order_history'[o].initial_price = order_history[o].initial_price
         /\ order_history'[o].first_seen = order_history[o].first_seen
         /\ order_history'[o].user_id = order_history[o].user_id
         /\ order_history'[o].item_id = order_history[o].item_id
         /\ order_history'[o].side = order_history[o].side]_vars

\* C24 witness: a record that was updated at another price and later
\* swept, next to a younger record of the same user and item.
C24_Witness ==
    \E o, p \in Rows :
        /\ o # p
        /\ order_history[o].status = "dead"
        /\ order_history[o].final_price # order_history[o].initial_price
        /\ order_history[p].user_id = order_history[o].user_id
        /\ order_history[p].item_id = order_history[o].item_id
        /\ order_history[p].status = "active"
        /\ order_history[o].listing_type = "new"

\* C25: the outbound requests of one client are serialized: every GET
\* follows a grant of its own from RateLimiter.acquire, and at most one
\* GET of the client is in flight at any time.
C25_OneGetInFlight == Cardinality(in_flight) <= 1

\* C26: in every reachable state a dead record has a last_seen older than
\* the 30-day cutoff; a record updated with a recent last_seen is not left
\* dead.
C26_DeadRecordsAreStale ==
    \A o \in Rows :
        order_history[o].status = "dead" => order_history[o].last_seen < now - StaleTicks

\* C27: concurrent process_order calls for one order_id leave the record
\* that running them one after the other leaves; in either order that is
\* one price_changes increment for every committed update at a price other
\* than initial_price, so none is lost.
C27_NoIncrementLost ==
    \A o \in Rows : order_history[o].price_changes = changes_due[o]

\* C28: any two request grants of the process are at least 0.5 s apart,
\* also when they come from different clients.
C28_GrantsSpacedAcrossClients ==
    cl_grants >= 2 => cl_latest_grant - cl_prev_grant >= min_interval

\* C29: order_history holds at most one record per order_id: of the INSERTs
\* of one order_id exactly one has committed when the record is there, and
\* none otherwise, under any interleaving of process_order calls.
C29_OneRecordPerOrderId ==
    \A o \in OrderIds : inserted[o] = IF o \in Rows THEN 1 ELSE 0

\* Two calls found the order_id unseen; one inserted it, the other failed.
C29_Witness ==
    \E s \in sx_raised :
        /\ sx_pc[s] = "idle"
        /\ \E o \in Rows : inserted[o] = 1

\* C30: fetch_orders_batch fetches the items one after the other in list
\* order and reports (i+1)/total*100, truncated, after the i-th completion;
\* the reported values never decrease and the last one is 100.
C30_LastProgressIs100 ==
    batch_pc \in {"returned", "raised"} /\ batch_progress # <<>>
        => batch_progress[Len(batch_progress)] = 100

HoursOf(records) == {records[i].hour : i \in DOMAIN records}
CheapestHours(records) ==
    {h \in HoursOf(records) :
        \A g \in HoursOf(records) : ~Less(HourMean(records, g), HourMean(records, h))}
DearestHours(records) ==
    {h \in HoursOf(records) :
        \A g \in HoursOf(records) : ~Less(HourMean(records, h), HourMean(records, g))}

\* C32: best_buy_time is the hour with the lowest mean price, the lowest
\* hour index among tied hours; best_sell_time the hour with the highest
\* mean price, the highest hour index among tied hours.
C32_TiesByHourIndex ==
    fn_done /\ fn_out # NoAnalysis =>
        /\ fn_out[1].best_buy_time = Format02d(Minimum(CheapestHours(fn_in)))
        /\ fn_out[1].best_sell_time = Format02d(Maximum(DearestHours(fn_in)))

\* The samples of one day and one side, as positions in the records, and
\* the sums over a set of positions.
OfDay(records, d) == {i \in DOMAIN records : records[i].day = d}
Buys(records, d) == {i \in OfDay(records, d) : records[i].side = "buy"}
Sells(records, d) == {i \in OfDay(records, d) : records[i].side = "sell"}

RECURSIVE PriceSum(_, _)
PriceSum(records, I) ==
    IF I = {} THEN 0
    ELSE LET i == CHOOSE j \in I : TRUE IN records[i].price + PriceSum(records, I \ {i})

RECURSIVE SquareSum(_, _)
SquareSum(records, I) ==
    IF I = {} THEN 0
    ELSE LET i == CHOOSE j \in I : TRUE
         IN records[i].price * records[i].price + SquareSum(records, I \ {i})

RECURSIVE QuantitySum(_, _)
QuantitySum(records, I) ==
    IF I = {} THEN 0
    ELSE LET i == CHOOSE j \in I : TRUE IN records[i].quantity + QuantitySum(records, I \ {i})

Trends == fn_out[1].price_trends

\* C33: a day's best_buy_price is the maximum buy price and best_sell_price
\* the minimum sell price of the day, 0 for a side without a sample;
\* market_spread is mean(sell) - mean(buy) when both sides have samples
\* that day, else 0.
C33_BestPricesAndSpread ==
    fn_done /\ fn_out # NoAnalysis =>
        \A t \in DOMAIN Trends :
            LET d == Trends[t].timestamp
                buys == Buys(fn_in, d)
                sells == Sells(fn_in, d)
                spread == Trends[t].market_spread
            IN  /\ Trends[t].best_buy_price =
                       IF buys = {} THEN 0 ELSE Maximum({fn_in[i].price : i \in buys})
                /\ Trends[t].best_sell_price =
                       IF sells = {} THEN 0 ELSE Minimum({fn_in[i].price : i \in sells})
                /\ spread[2] > 0
                /\ IF buys # {} /\ sells # {}
                   THEN spread[1] * Cardinality(buys) * Cardinality(sells) =
                            spread[2] * (PriceSum(fn_in, sells) * Cardinality(buys)
                                         - PriceSum(fn_in, buys) * Cardinality(sells))
                   ELSE spread[1] = 0

\* A day with two buy prices and a dearer sell, so that the spread is not 0.
C33_Witness ==
    /\ fn_done /\ fn_out # NoAnalysis
    /\ \E t \in DOMAIN Trends :
          /\ Trends[t].best_buy_price = 20
          /\ Trends[t].min_price = 10
          /\ Trends[t].best_sell_price = 20
          /\ Trends[t].market_spread[1] > 0

\* C34: price_trends holds one MarketTrend per calendar day with a sample,
\* in strictly ascending day order; market_spread_trend is aligned with
\* it; the daily volumes sum to the total quantity of the samples.
C34_OneTrendPerDay ==
    fn_done /\ fn_out # NoAnalysis =>
        /\ {Trends[t].timestamp : t \in DOMAIN Trends} = {fn_in[i].day : i \in DOMAIN fn_in}
        /\ \A t \in 1..(Len(Trends) - 1) : Trends[t].timestamp < Trends[t + 1].timestamp
        /\ Len(fn_out[1].market_spread_trend) = Len(Trends)
        /\ \A t \in DOMAIN Trends : fn_out[1].market_spread_trend[t] = Trends[t].market_spread
        /\ \A t \in DOMAIN Trends :
              Trends[t].volume = QuantitySum(fn_in, OfDay(fn_in, Trends[t].timestamp))
        /\ SumSeq([t \in DOMAIN Trends |-> Trends[t].volume]) = QuantitySum(fn_in, DOMAIN fn_in)

\* Three samples on two days, one of quantity 2.
C34_Witness ==
    /\ fn_done /\ fn_out # NoAnalysis
    /\ Len(fn_in) = 3
    /\ Len(Trends) = 2
    /\ Trends[1].volume = 3

\* C35: a day's volatility is the population standard deviation of the
\* day's prices (squared deviations over n), 0 for fewer than 2 samples;
\* price_volatility is 0 for fewer than 2 days.
C35_PopulationVolatility ==
    fn_done /\ fn_out # NoAnalysis =>
        /\ \A t \in DOMAIN Trends :
              LET I == OfDay(fn_in, Trends[t].timestamp)
                  n == Cardinality(I)
                  v == Trends[t].volatility2
              IN  IF n < 2 THEN v[1] = 0
                  ELSE v[1] * n * n =
                       v[2] * (n * SquareSum(fn_in, I) - PriceSum(fn_in, I) * PriceSum(fn_in, I))
        /\ Len(Trends) < 2 => fn_out[1].price_volatility2[1] = 0

\* C36: an order is flagged as rapid iff it was visible for at least one
\* hour and |final_price - initial_price| per visible hour exceeds 10; an
\* order visible for less than an hour, or an unknown order_id, yields
\* (False, 0.0).
C36_RapidIffFastAndLongEnough ==
    fn_done =>
        LET known == fn_in.order_id \in DOMAIN fn_in.oh
            row == fn_in.oh[fn_in.order_id]
            visible == row.last_seen - row.first_seen
        IN  /\ fn_out[1] <=>
                   /\ known
                   /\ visible >= TicksPerHour
                   /\ Abs(row.final_price - row.initial_price) * TicksPerHour > 10 * visible
            /\ (~known \/ visible < TicksPerHour) => fn_out = <<FALSE, <<0, 1>>>>

\* An order visible for exactly one hour whose price moved by 11 is flagged.
C36_Witness ==
    /\ fn_done
    /\ fn_out[1]
    /\ LET row == fn_in.oh[fn_in.order_id]
       IN  /\ row.last_seen - row.first_seen = TicksPerHour
           /\ Abs(row.final_price - row.initial_price) = 11

\* C37: the counts of async_update_market_data are exact: the success count
\* is the number of listings whose write was committed to the store, and a
\* listing whose write failed and rolled back counts as an error.
C37_CountsExact ==
    /\ order_count = orders_written
    /\ price_count = prices_written

\* C38: when a run has ended (completed, returned early or failed at any
\* step) the client's session is None and no session it opened is left
\* open; a client never holds more than one open session.
C38_SessionClosedAtEnd ==
    /\ run_pc = "done" => session = None /\ open_sessions = {}
    /\ Cardinality(open_sessions) <= 1
    /\ session # None => open_sessions = {session}

\* A run that opened a session and failed at a later step has ended.
C38_Witness ==
    /\ run_pc = "done"
    /\ run_result = "raised"
    /\ run_step > 1
    /\ next_session > 1
    /\ session = None

\* C39: get_all_orders returns exactly one entry for each (order_type,
\* price) whose quantities added since the last clear sum to more than 0,
\* with that price, that order_type and that sum; it returns no other
\* entry, and it leaves the collection as it found it.
C39_ReportsPositiveSums ==
    oc_pc = "reported" =>
        /\ \A t \in OrderTypes, p \in CollectionPrices :
              oc_added[<<t, p>>] > 0 =>
                 Cardinality({i \in DOMAIN oc_result :
                                 oc_result[i] = OrderEntry(p, oc_added[<<t, p>>], t)}) = 1
        /\ \A i \in DOMAIN oc_result :
              /\ oc_result[i].price \in CollectionPrices
              /\ oc_result[i].order_type \in OrderTypes
              /\ oc_added[<<oc_result[i].order_type, oc_result[i].price>>] > 0
              /\ oc_result[i].quantity
                    = oc_added[<<oc_result[i].order_type, oc_result[i].price>>]
        /\ Len(oc_result)
              = Cardinality({k \in OrderTypes \X CollectionPrices : oc_added[k] > 0})
        /\ oc_orders = oc_before

\* A report of a collection holding a sum of two additions and a
\* placeholder entry of quantity 0.
C39_Witness ==
    /\ oc_pc = "reported"
    /\ \E i \in DOMAIN oc_result : oc_result[i].quantity = 3
    /\ \E t \in OrderTypes : \E j \in DOMAIN oc_orders[t] : oc_orders[t][j].entry.quantity = 0

====
